---- MODULE Spec2Model ----
(***************************************************************************)
(* FreeStream: the TTS message queue and dispatcher (QueueService with its *)
(* RateLimiter and DuplicateDetector, the websocket handlers that feed     *)
(* completion acks to it) and the TTS cache fill (TTSService.synthesize).  *)
(*                                                                         *)
(* Spec     : the queue-service operations executed one at a time.        *)
(* ConcSpec : the same operations run by concurrent threads, split at the  *)
(*            points where the code takes or releases a lock.              *)
(* FairSpec : ConcSpec with weak fairness on the steps of started          *)
(*            operations (a started handler runs to completion).           *)
(* TtsSpec  : concurrent TTSService.synthesize calls.                      *)
(* SeqTtsSpec : synthesize calls made one after the other.                 *)
(* ProcSpec : the pipeline, every message coming from process_event.       *)
(* LimiterSpec : a RateLimiter and a DuplicateDetector called directly.    *)
(* HeapSpec : the heap of PriorityItem under heappush and heappop.         *)
(* AudioSpec : GET /audio/<audio_id> requests while synthesize fills the   *)
(*            cache.                                                       *)
(* ThresholdSpec : EventProcessor._meets_threshold called directly.        *)
(* CleanSpec : EventProcessor._clean_text called directly, then on its     *)
(*            own result.                                                  *)
(* EventSpec : an event of a class with variant kinds is constructed and   *)
(*            given to process_event.                                      *)
(* WyomingSpec : one WyomingProtocol.synthesize call against a backend     *)
(*            that sends what it likes.                                    *)
(* ClientSpec : messages are added one at a time and a client that plays  *)
(*            what it is sent acknowledges every tts_ready it received.    *)
(* DispatchSpec : the concurrent threads with a record of the tts_ready    *)
(*            events sent and of the messages skipped or dropped.          *)
(***************************************************************************)
EXTENDS Integers, Sequences, FiniteSets, TLC

\* ------------------------------------------------------------------------
\* Bounds of the model and scaled-down configuration values
\* ------------------------------------------------------------------------
MaxMsgs == 4            \* number of TTSMessage objects constructed in a run
MaxConcMsgs == 3        \* the same, in a run of the concurrent threads
MaxTextLen == 2         \* texts given to synthesize have 0..MaxTextLen characters
MaxAudioSize == 2       \* the backend returns audio of size 1..MaxAudioSize
TTS_MAX_MESSAGE_LENGTH == 1   \* config.TTS_MAX_MESSAGE_LENGTH
AUDIO_CACHE_MAX_SIZE == 2     \* config.AUDIO_CACHE_MAX_SIZE_MB, in units of audio size
AUDIO_CACHE_TTL == 1          \* config.AUDIO_CACHE_TTL_HOURS, in ticks of the clock
MaxPriority == 2        \* message priorities are 1..MaxPriority
MaxText == 4            \* distinct message texts are 1..MaxText
MaxTime == 1            \* the clock runs over 0..MaxTime
MaxCacheTime == 2       \* the clock of the cache runs over 0..MaxCacheTime
QUEUE_MAX_SIZE == 2     \* config.QUEUE_MAX_SIZE
QUEUE_DUPLICATE_WINDOW == 1   \* config.QUEUE_DUPLICATE_WINDOW
RATE_LIMIT_TWITCH == 2  \* config.RATE_LIMIT_TWITCH
RATE_LIMIT_YOUTUBE == 1 \* config.RATE_LIMIT_YOUTUBE
RATE_WINDOW == 1        \* RateLimiter.window
MaxLimiterTime == 3     \* LimiterSpec: the clock runs over 0..MaxLimiterTime
MaxLimiterTexts == 2    \* LimiterSpec: the texts shown to the detector are 1..MaxLimiterTexts
LIMITER_RATE == 2       \* LimiterSpec: RateLimiter(rate=LIMITER_RATE, ...)
LIMITER_WINDOW == 2     \* LimiterSpec: RateLimiter(..., window=LIMITER_WINDOW)
DETECTOR_WINDOW == 2    \* LimiterSpec: DuplicateDetector(window=DETECTOR_WINDOW)
MaxHeapLen == 3         \* HeapSpec: the heap holds at most MaxHeapLen items
MaxHeapTime == 1        \* HeapSpec: messages are created at times 0..MaxHeapTime
MaxAudioIdLen == 3      \* AudioSpec: an audio_id has 1..MaxAudioIdLen characters
MaxBits == 1            \* a bits event carries 0..MaxBits bits
TWITCH_BITS_MINIMUM == 1              \* config.TWITCH_BITS_MINIMUM
YOUTUBE_SUPERCHAT_MINIMUM_CENTS == 2  \* config.YOUTUBE_SUPERCHAT_MINIMUM_CENTS
MaxMicroSteps == 60     \* ThresholdSpec: amountMicros is 0..MaxMicroSteps steps of MicroStep
MicroStep == 2500       \* ThresholdSpec: a quarter of a cent, in micros
HalfCent == 5000        \* half a cent, in micros
MaxPieces == 5          \* CleanSpec: a text is made of at most MaxPieces pieces
MaxGiftCount == 3       \* EventSpec: a gift event carries a total of 0..MaxGiftCount
MaxTier == 3            \* EventSpec: subscriptions have tiers 1..MaxTier
TWITCH_GIFT_SUBS_MINIMUM == 1         \* config.TWITCH_GIFT_SUBS_MINIMUM
SOCKET_TIMEOUT == 2     \* WyomingSpec: sock.settimeout(30), in ticks of the clock
MaxElapsed == 5         \* WyomingSpec: a call is followed for 0..MaxElapsed ticks
MaxPayload == 2         \* WyomingSpec: an audio-chunk announces 1..MaxPayload bytes
MaxChunks == 2          \* WyomingSpec: the backend sends at most MaxChunks payloads
MaxDispatchMsgs == 2    \* DispatchSpec: number of TTSMessage objects constructed in a run

None == "None"
Slash == "/"
Backslash == "\\"
Dot == "."
Colon == ":"
Space == " "
Lt == "<"
NoTime == 0 - 1
NoId == 0

Platforms == {"twitch", "youtube"}
Priorities == 1..MaxPriority
Texts == 1..MaxText

VARIABLES
    queue,        \* QueueService._queue: the heapq list of PriorityItem
    messages,     \* QueueService._messages: the messages indexed by id
    current,      \* QueueService._current_message (NoneMsg: None)
    seen,         \* DuplicateDetector.seen: text -> first-seen time (NoTime: absent)
    tokens,       \* RateLimiter.tokens of each platform: key -> list of timestamps
    now,          \* time.time()
    nextId,       \* number of TTSMessage objects constructed so far
    lastOp,       \* the operation (or thread step) that ran last: its argument, its result
                  \* and the id of the message it dropped ("Queue full, dropped")
    overtaken,    \* history: ids of queued messages that were queued together with a
                  \* message of higher priority that left the queue without being polled
    emitted,      \* the socketio events emitted by the last operation (or thread step)
    pc,           \* ConcSpec: position of each thread inside its operation
    arg,          \* ConcSpec: the argument of each thread's operation
    polled,       \* ConcSpec: the local variable `message` of _send_next
    cacheFiles,   \* TtsSpec: the cache directory: the files <key>.wav
    tlock,        \* TtsSpec: the holder of TTSService._lock (None: free)
    tpc,          \* TtsSpec: position of each synthesize caller
    tkey,         \* TtsSpec: the local cache_key of each synthesize caller
    taudio,       \* TtsSpec: the local audio_data (its size) of each synthesize caller
    tcalled,      \* TtsSpec: whether the caller's running call has called the backend
    tret,         \* TtsSpec: what the last synthesize call of each caller returned or raised
    ltokens,      \* LimiterSpec: RateLimiter.tokens: key -> list of timestamps
    lseen,        \* LimiterSpec: DuplicateDetector.seen: text -> time (NoTime: absent)
    lnow,         \* LimiterSpec: time.time()
    lret,         \* LimiterSpec: the last call on the limiter or the detector, its result
    admitted,     \* history: key -> the times at which is_allowed(key) returned True
    accepted,     \* history: text -> the last time is_duplicate(text) returned False
    hq,           \* HeapSpec: a heapq list of PriorityItem
    hout,         \* HeapSpec: the message of the item popped last (NoneMsg: none yet)
    tdone,        \* history: for each key, the artifact (its bytes) the last successful
                  \* call returned, and whether it has stayed in the cache since
    aret,         \* AudioSpec: the last GET /audio/<audio_id> request and its response
    pevent,       \* ProcSpec: the event given to the last process_event
    synthCalls,   \* ProcSpec: the number of tts_service.synthesize calls the last
                  \* process_event made
    mret,         \* ThresholdSpec: an event, and what _meets_threshold returned for it
    cret,         \* CleanSpec: a text, and what _clean_text returned for it
    sevent,       \* EventSpec: an event of a class with variant kinds, and its stage
    wy,           \* WyomingSpec: the running WyomingProtocol.synthesize call
    hist          \* history, kept in DispatchSpec and ClientSpec: the ids emitted as
                  \* tts_ready, the ids evicted, cleared or skipped, and the ids acked

qvars == <<queue, messages, current, seen, tokens, now, nextId, lastOp, overtaken, emitted>>
cvars == <<pc, arg, polled>>
tvars == <<cacheFiles, tlock, tpc, tkey, taudio, tcalled, tret, tdone>>
lvars == <<ltokens, lseen, lnow, lret, admitted, accepted>>
hvars == <<hq, hout>>
avars == <<aret>>
pvars == <<pevent, synthCalls>>
fvars == <<mret, cret>>
evars == <<sevent>>
wvars == <<wy>>
svars == <<hist>>
vars == <<queue, messages, current, seen, tokens, now, nextId, lastOp, overtaken, emitted,
          pc, arg, polled, cacheFiles, tlock, tpc, tkey, taudio, tcalled, tret, tdone,
          ltokens, lseen, lnow, lret, admitted, accepted, hq, hout, aret,
          pevent, synthCalls, mret, cret, sevent, wy, hist>>

\* ------------------------------------------------------------------------
\* TTSMessage and PriorityItem
\* ------------------------------------------------------------------------
\* A TTSMessage: audio_path is modelled by its truthiness, event by its platform.
TTSMessage(id, text, priority, platform, audio, created) ==
    [id |-> id, text |-> text, priority |-> priority, platform |-> platform,
     audio_path |-> audio, created_at |-> created]

\* The value None where a TTSMessage is expected.
NoneMsg == TTSMessage(NoId, 0, 0, None, FALSE, 0)

\* PriorityItem.__init__: the priority is negated so that higher comes first.
PriorityItem(message) ==
    [priority |-> 0 - message.priority,
     timestamp |-> message.created_at,
     message |-> message]

\* The generated __lt__ of @dataclass(order=True): only `priority` takes part.
ItemLess(a, b) == a.priority < b.priority

\* ------------------------------------------------------------------------
\* heapq on a list (0-based position p is index p + 1)
\* ------------------------------------------------------------------------
RECURSIVE SiftDown(_, _, _, _)
\* heapq._siftdown: move newitem up from pos while it is less than its parent.
SiftDown(heap, startpos, pos, newitem) ==
    IF pos > startpos
    THEN LET parentpos == (pos - 1) \div 2
             parent == heap[parentpos + 1]
         IN IF ItemLess(newitem, parent)
            THEN SiftDown([heap EXCEPT ![pos + 1] = parent], startpos, parentpos, newitem)
            ELSE [heap EXCEPT ![pos + 1] = newitem]
    ELSE [heap EXCEPT ![pos + 1] = newitem]

RECURSIVE SiftUpLoop(_, _, _, _)
\* heapq._siftup: bubble the smaller child up until a leaf, then sift newitem down.
SiftUpLoop(heap, startpos, pos, newitem) ==
    LET endpos == Len(heap)
        childpos == 2 * pos + 1
        rightpos == childpos + 1
        child == IF rightpos < endpos /\ ~ItemLess(heap[childpos + 1], heap[rightpos + 1])
                 THEN rightpos ELSE childpos
    IN IF childpos < endpos
       THEN SiftUpLoop([heap EXCEPT ![pos + 1] = heap[child + 1]], startpos, child, newitem)
       ELSE SiftDown(heap, startpos, pos, newitem)

\* heapq.heappush(heap, item)
HeapPush(heap, item) ==
    SiftDown(Append(heap, item), 0, Len(heap), item)

\* heapq.heappop(heap): the item returned (heap non-empty)
HeapPopItem(heap) == heap[1]

\* heapq.heappop(heap): the heap that is left (heap non-empty)
HeapPopRest(heap) ==
    LET lastelt == heap[Len(heap)]
        rest == SubSeq(heap, 1, Len(heap) - 1)
    IN IF rest = <<>> THEN rest
       ELSE SiftUpLoop([rest EXCEPT ![1] = lastelt], 0, 0, lastelt)

\* ------------------------------------------------------------------------
\* DuplicateDetector and RateLimiter
\* ------------------------------------------------------------------------
\* DuplicateDetector(window).is_duplicate: "Clean old entries".
CleanSeen(s, t, window) ==
    [x \in DOMAIN s |-> IF s[x] # NoTime /\ t - s[x] < window THEN s[x] ELSE NoTime]

\* DuplicateDetector(window).is_duplicate: the value returned.
IsDuplicateIn(s, text, t, window) == CleanSeen(s, t, window)[text] # NoTime

\* is_duplicate where a duplicate hit refreshes the entry (the window is extended).
SeenAfterInRefreshed(s, text, t, window) == [CleanSeen(s, t, window) EXCEPT ![text] = t]

\* DuplicateDetector(window).is_duplicate: self.seen after the call.
SeenAfterIn(s, text, t, window) ==
    IF IsDuplicateIn(s, text, t, window) THEN CleanSeen(s, t, window)
    ELSE [CleanSeen(s, t, window) EXCEPT ![text] = t]

\* The detector of QueueService: DuplicateDetector(config.QUEUE_DUPLICATE_WINDOW).
PruneSeen(s, t) == CleanSeen(s, t, QUEUE_DUPLICATE_WINDOW)

IsDuplicate(s, text, t) == IsDuplicateIn(s, text, t, QUEUE_DUPLICATE_WINDOW)

SeenAfter(s, text, t) == SeenAfterIn(s, text, t, QUEUE_DUPLICATE_WINDOW)

\* RateLimiter.__init__ as called by QueueService.__init__: the rate of each platform.
RateOf(key) == IF key = "twitch" THEN RATE_LIMIT_TWITCH ELSE RATE_LIMIT_YOUTUBE

\* RateLimiter(rate, window): "Remove old tokens": cutoff = now - self.window.
RemoveOld(l, t, window) == SelectSeq(l, LAMBDA x : x > t - window)

\* The limiters of QueueService: RateLimiter(config.RATE_LIMIT_*), window by default.
PruneTokens(l, t) == RemoveOld(l, t, RATE_WINDOW)

\* RateLimiter.is_allowed: the value returned.
IsAllowed(tk, key, t) == Len(PruneTokens(tk[key], t)) < RateOf(key)

\* RateLimiter.is_allowed: self.tokens after the call.
TokensAfterAllowed(tk, key, t) ==
    [tk EXCEPT ![key] = IF IsAllowed(tk, key, t)
                        THEN Append(PruneTokens(tk[key], t), t)
                        ELSE PruneTokens(tk[key], t)]

\* RateLimiter.get_remaining on both limiters (as get_queue_status calls it):
\* self.tokens after the calls.
TokensAfterRemaining(tk, t) == [k \in Platforms |-> PruneTokens(tk[k], t)]

\* ------------------------------------------------------------------------
\* QueueService: the bodies of the locked sections and the events emitted
\* ------------------------------------------------------------------------
Event(ev, id, size) == [ev |-> ev, id |-> id, size |-> size]

\* A bug add_message could have: push without making room on a full queue.
OfferQueueNoEviction(q, m) == HeapPush(q, PriorityItem(m))

\* add_message, `with self._queue_lock`: self._queue afterwards.
OfferQueue(q, m) ==
    IF Len(q) >= QUEUE_MAX_SIZE /\ q # <<>>
    THEN HeapPush(HeapPopRest(q), PriorityItem(m))
    ELSE HeapPush(q, PriorityItem(m))

\* A bug add_message could have: the dropped message stays in self._messages.
OfferMessagesKeepDropped(q, msgs, m) == msgs \cup {m}

\* add_message, `with self._queue_lock`: self._messages afterwards.
OfferMessages(q, msgs, m) ==
    IF Len(q) >= QUEUE_MAX_SIZE /\ q # <<>>
    THEN {x \in msgs : x.id # HeapPopItem(q).message.id} \cup {m}
    ELSE msgs \cup {m}

\* get_next: the message returned (None when the queue is empty).
GetNextMessage(q) == IF q = <<>> THEN NoneMsg ELSE HeapPopItem(q).message

\* get_next: self._queue afterwards.
GetNextQueue(q) == IF q = <<>> THEN q ELSE HeapPopRest(q)

\* get_next: self._messages afterwards.
GetNextMessages(q, msgs) ==
    IF q = <<>> THEN msgs ELSE {x \in msgs : x.id # HeapPopItem(q).message.id}

\* get_next: self._current_message afterwards (unchanged when the queue is empty).
GetNextCurrent(q, cur) == IF q = <<>> THEN cur ELSE HeapPopItem(q).message

\* get_message(message_id): the current message when its id matches, else
\* self._messages.get(message_id) (None when the id is not a key).
GetMessage(cur, msgs, message_id) ==
    IF cur # NoneMsg /\ cur.id = message_id THEN cur
    ELSE IF \E x \in msgs : x.id = message_id
         THEN CHOOSE x \in msgs : x.id = message_id
         ELSE NoneMsg

\* _send_next: the events emitted for the message that get_next returned.
SendNextEvents(message) ==
    IF message # NoneMsg /\ message.audio_path
    THEN <<Event("tts_ready", message.id, 0)>>
    ELSE <<>>

\* mark_complete, `with self._queue_lock`: self._current_message afterwards.
MarkCompleteCurrent(cur, message_id) ==
    IF cur # NoneMsg /\ cur.id = message_id THEN NoneMsg ELSE cur

\* skip_current, `with self._queue_lock`: self._current_message afterwards.
SkipCurrentCurrent(cur) == NoneMsg

\* _notify_queue_update: the queue_update event with get_queue_status' size and current.
QueueUpdateEvent(q, cur) == Event("queue_update", cur.id, Len(q))

\* add_message, `with self._queue_lock`: the id of the message dropped (NoId: none).
OfferDropped(q) ==
    IF Len(q) >= QUEUE_MAX_SIZE /\ q # <<>> THEN HeapPopItem(q).message.id ELSE NoId

Op(op, id, ret, dropped) ==
    [op |-> op, id |-> id, ret |-> ret, dropped |-> dropped, text |-> 0, stage |-> "none"]

\* add_message(message) has run: the message's id and text, the result, the drop.
AddOp(m, ret, dropped) == [Op("add_message", m.id, ret, dropped) EXCEPT !.text = m.text]

\* add_message has returned at one of its two checks: which one, and what it returned.
RejectOp(m, ret, check) == [AddOp(m, ret, NoId) EXCEPT !.stage = check]

\* The messages held by the heap q.
Queued(q) == {q[i].message : i \in DOMAIN q}

\* History, when add_message offers to q: the queued ids overtaken so far, with those
\* that stay queued while a message of higher priority is dropped.
OvertakenAfterOffer(q, ov) ==
    IF OfferDropped(q) = NoId THEN ov
    ELSE (ov \cup {b.id : b \in {x \in Queued(q) :
                                    x.priority < HeapPopItem(q).message.priority}})
         \ {OfferDropped(q)}

\* History, when get_next polls from q: the polled message is no longer queued.
OvertakenAfterPoll(q, ov) == ov \ {GetNextMessage(q).id}

\* The ids of the tts_ready events among the events evs, in the order of emission.
RECURSIVE ReadySeq(_)
ReadySeq(evs) ==
    IF evs = <<>> THEN <<>>
    ELSE (IF Head(evs).ev = "tts_ready" THEN <<Head(evs).id>> ELSE <<>>)
            \o ReadySeq(Tail(evs))

\* The history: whether it is kept, the ids emitted as tts_ready so far, the ids
\* removed so far (evicted on overflow, cleared, skipped), the ids acked so far.
History(on, sent, gone, acked) == [on |-> on, sent |-> sent, gone |-> gone, acked |-> acked]

\* History of a step: the tts_ready events it emits; the ids that leave the index
\* _messages without becoming current (evicted or cleared) and the ids it skipped;
\* the ids it acked.
Tracked(skipped, acked) ==
    hist' = IF hist.on
            THEN History(TRUE,
                         hist.sent \o ReadySeq(emitted'),
                         hist.gone \cup skipped
                            \cup ({m.id : m \in messages}
                                    \ ({m.id : m \in messages'} \cup {current'.id})),
                         hist.acked \cup acked)
            ELSE hist

Track == Tracked({}, {})

\* ------------------------------------------------------------------------
\* Spec: the operations executed one at a time
\* ------------------------------------------------------------------------
\* The platform of the event a text was rendered for: text 1 is a Twitch alert,
\* texts 2 and 3 are YouTube alerts, any other text belongs to a message without event.
EventPlatform(text) ==
    IF text = 1 THEN "twitch" ELSE IF text \in {2, 3} THEN "youtube" ELSE None

\* The TTSMessage objects a caller may construct now (fresh id, created_at = now).
NewMessages ==
    {TTSMessage(nextId + 1, text, priority, EventPlatform(text), audio, now) :
        text \in Texts, priority \in Priorities, audio \in BOOLEAN}

\* The TTSMessage objects an adapter thread may construct (ConcSpec): messages for
\* an event, with a synthesized audio path, as EventProcessor.process_event builds them.
AdapterMessages == {m \in NewMessages : m.audio_path /\ m.platform # None}

\* The ids a client ack may carry: none, or the id of a message constructed so far.
AckIds == 0..nextId

\* A duplicate rejection that still notifies the clients.
AddDuplicateNotified(m) ==
    /\ IsDuplicate(seen, m.text, now)
    /\ seen' = SeenAfter(seen, m.text, now)
    /\ lastOp' = RejectOp(m, "False", "duplicate")
    /\ emitted' = <<QueueUpdateEvent(queue, current)>>
    /\ UNCHANGED <<queue, messages, current, tokens, overtaken>>

\* QueueService.add_message(message), rejected by the duplicate detector.
AddDuplicate(m) ==
    /\ IsDuplicate(seen, m.text, now)
    /\ seen' = SeenAfter(seen, m.text, now)
    /\ lastOp' = RejectOp(m, "False", "duplicate")
    /\ emitted' = <<>>
    /\ UNCHANGED <<queue, messages, current, tokens, overtaken>>

\* A rate-limited rejection by a limiter consulted before the detector: the text is
\* not recorded.
AddRateLimitedUnrecorded(m) ==
    /\ ~IsDuplicate(seen, m.text, now)
    /\ m.platform # None
    /\ ~IsAllowed(tokens, m.platform, now)
    /\ seen' = seen
    /\ tokens' = TokensAfterAllowed(tokens, m.platform, now)
    /\ lastOp' = RejectOp(m, "False", "rate_limit")
    /\ emitted' = <<>>
    /\ UNCHANGED <<queue, messages, current, overtaken>>

\* A rate-limited rejection reported as success.
AddRateLimitedAccepted(m) ==
    /\ ~IsDuplicate(seen, m.text, now)
    /\ m.platform # None
    /\ ~IsAllowed(tokens, m.platform, now)
    /\ seen' = SeenAfter(seen, m.text, now)
    /\ tokens' = TokensAfterAllowed(tokens, m.platform, now)
    /\ lastOp' = RejectOp(m, "True", "rate_limit")
    /\ emitted' = <<>>
    /\ UNCHANGED <<queue, messages, current, overtaken>>

\* QueueService.add_message(message), rejected by the rate limiter.
AddRateLimited(m) ==
    /\ ~IsDuplicate(seen, m.text, now)
    /\ m.platform # None
    /\ ~IsAllowed(tokens, m.platform, now)
    /\ seen' = SeenAfter(seen, m.text, now)
    /\ tokens' = TokensAfterAllowed(tokens, m.platform, now)
    /\ lastOp' = RejectOp(m, "False", "rate_limit")
    /\ emitted' = <<>>
    /\ UNCHANGED <<queue, messages, current, overtaken>>

\* QueueService.add_message(message), accepted: offer, notify, send next if idle.
AddAccepted(m) ==
    /\ ~IsDuplicate(seen, m.text, now)
    /\ m.platform # None => IsAllowed(tokens, m.platform, now)
    /\ LET q1 == OfferQueue(queue, m)
           msgs1 == OfferMessages(queue, messages, m)
           tk1 == IF m.platform # None
                  THEN TokensAfterAllowed(tokens, m.platform, now) ELSE tokens
           idle == current = NoneMsg
       IN /\ seen' = SeenAfter(seen, m.text, now)
          /\ tokens' = TokensAfterRemaining(tk1, now)
          /\ queue' = IF idle THEN GetNextQueue(q1) ELSE q1
          /\ messages' = IF idle THEN GetNextMessages(q1, msgs1) ELSE msgs1
          /\ current' = IF idle THEN GetNextCurrent(q1, current) ELSE current
          /\ overtaken' = IF idle
                          THEN OvertakenAfterPoll(q1, OvertakenAfterOffer(queue, overtaken))
                          ELSE OvertakenAfterOffer(queue, overtaken)
          /\ emitted' = <<QueueUpdateEvent(q1, current)>>
                        \o (IF idle THEN SendNextEvents(GetNextMessage(q1)) ELSE <<>>)
    /\ lastOp' = AddOp(m, "True", OfferDropped(queue))

\* A caller constructs a TTSMessage and calls QueueService.add_message with it.
AddMessage ==
    /\ nextId < MaxMsgs
    /\ \E m \in NewMessages : AddDuplicate(m) \/ AddRateLimited(m) \/ AddAccepted(m)
    /\ nextId' = nextId + 1
    /\ UNCHANGED <<now, cvars, tvars, lvars, hvars, avars, pvars, fvars, evars, wvars>>
    /\ Track

\* A StreamEvent: its event_type and its amount (bits for a cheer, amountMicros for a
\* Super Chat).
StreamEvent(kind, amount) == [kind |-> kind, amount |-> amount]

NoEvent == StreamEvent(None, 0)

MICROS_PER_UNIT == 1000000

\* The amountMicros a Super Chat or a Super Sticker may carry.
Micros == {k * MicroStep : k \in 0..MaxMicroSteps}

\* The events the adapters hand to process_event: cheers, a channel-point redemption,
\* and Super Chats of half a cent less than the minimum and of the minimum.
Events ==
    {StreamEvent("twitch_bits", n) : n \in 0..MaxBits}
        \cup {StreamEvent("twitch_channel_points", 0)}
        \cup {StreamEvent("youtube_superchat", m) :
                    m \in {k * HalfCent : k \in {2 * YOUTUBE_SUPERCHAT_MINIMUM_CENTS - 1,
                                                  2 * YOUTUBE_SUPERCHAT_MINIMUM_CENTS}}}

TWITCH_BITS_ENABLED == TRUE
TWITCH_CHANNEL_POINTS_ENABLED == FALSE
YOUTUBE_SUPERCHAT_ENABLED == TRUE
YOUTUBE_SUPERSTICKER_ENABLED == TRUE
TWITCH_SUBS_ENABLED == TRUE
TWITCH_GIFT_SUBS_ENABLED == TRUE
YOUTUBE_MEMBERSHIP_ENABLED == TRUE
YOUTUBE_MEMBERSHIP_MILESTONE_ENABLED == TRUE

\* _is_event_enabled: enabled_map.get(event.event_type, False).
IsEventEnabled(event) ==
    IF event.kind = "twitch_bits" THEN TWITCH_BITS_ENABLED
    ELSE IF event.kind = "twitch_channel_points" THEN TWITCH_CHANNEL_POINTS_ENABLED
    ELSE IF event.kind = "youtube_superchat" THEN YOUTUBE_SUPERCHAT_ENABLED
    ELSE IF event.kind = "youtube_supersticker" THEN YOUTUBE_SUPERSTICKER_ENABLED
    ELSE IF event.kind \in {"twitch_sub_new", "twitch_sub_resub"} THEN TWITCH_SUBS_ENABLED
    ELSE IF event.kind \in {"twitch_gift_single", "twitch_gift_multi"}
    THEN TWITCH_GIFT_SUBS_ENABLED
    ELSE IF event.kind = "youtube_membership_new" THEN YOUTUBE_MEMBERSHIP_ENABLED
    ELSE IF event.kind = "youtube_membership_milestone"
    THEN YOUTUBE_MEMBERSHIP_MILESTONE_ENABLED
    ELSE FALSE

\* _meets_threshold: amount_cents = int(event.amount * 100), with event.amount =
\* amountMicros / 1_000_000 (from_livechat); int() drops the fraction (the float
\* product is taken as exact; its rounding error can only make the result smaller).
AmountCents(micros) == (micros * 100) \div MICROS_PER_UNIT

\* A threshold test that lets an amount pass only above the minimum.
MeetsThresholdAbove(event) ==
    IF event.kind = "twitch_bits" THEN event.amount > TWITCH_BITS_MINIMUM
    ELSE IF event.kind \in {"twitch_gift_single", "twitch_gift_multi"}
    THEN event.count > TWITCH_GIFT_SUBS_MINIMUM
    ELSE IF event.kind \in {"youtube_superchat", "youtube_supersticker"}
    THEN AmountCents(event.amount) > YOUTUBE_SUPERCHAT_MINIMUM_CENTS
    ELSE TRUE

\* _meets_threshold(event).
MeetsThreshold(event) ==
    IF event.kind = "twitch_bits" THEN event.amount >= TWITCH_BITS_MINIMUM
    ELSE IF event.kind \in {"twitch_gift_single", "twitch_gift_multi"}
    THEN event.count >= TWITCH_GIFT_SUBS_MINIMUM
    ELSE IF event.kind \in {"youtube_superchat", "youtube_supersticker"}
    THEN AmountCents(event.amount) >= YOUTUBE_SUPERCHAT_MINIMUM_CENTS
    ELSE TRUE

\* The events _meets_threshold is given when it is called directly.
ThresholdEvents ==
    {StreamEvent(kind, m) : kind \in {"youtube_superchat", "youtube_supersticker"},
                            m \in Micros}

\* A call of _meets_threshold: the event, whether the call was made, its result.
Threshold(event, called, ret) == [event |-> event, called |-> called, ret |-> ret]

\* self._meets_threshold(event) is called with the event at hand.
MeetsThresholdCall ==
    /\ ~mret.called
    /\ mret' = Threshold(mret.event, TRUE, MeetsThreshold(mret.event))
    /\ UNCHANGED <<qvars, cvars, tvars, lvars, hvars, avars, pvars, cret, evars, wvars, svars>>

\* ------------------------------------------------------------------------
\* EventProcessor._clean_text
\* ------------------------------------------------------------------------
\* The pieces a text is made of: the scheme of a URL, and single characters.
Pieces == {<<"h", "t", "t", "p">>, <<Colon>>, <<Slash>>, <<"a">>, <<Space>>, <<Lt>>}

RECURSIVE Concat(_)
\* The pieces of a sequence joined into one text.
Concat(ps) == IF ps = <<>> THEN <<>> ELSE Head(ps) \o Concat(Tail(ps))

\* The texts _clean_text is given.
CleanTexts == {Concat(ps) : ps \in UNION {[1..n -> Pieces] : n \in 0..MaxPieces}}

\* The characters of the texts.
TextChars == {"h", "t", "p", Colon, Slash, "a", Space, Lt}

\* [a-zA-Z0-9_]
WordChars == {"h", "t", "p", "a"}

\* \s and \S
SpaceChars == {Space}
NonSpaceChars == TextChars \ SpaceChars

\* [<>{}[\]|\\^~`]
SpecialChars == {Lt}

RECURSIVE RunLength(_, _)
\* The length of the longest prefix of str made of characters of the set chars.
RunLength(str, chars) ==
    IF str # <<>> /\ Head(str) \in chars THEN 1 + RunLength(Tail(str), chars) ELSE 0

\* str[n+1:]
Drop(str, n) == SubSeq(str, n + 1, Len(str))

\* str.startswith(prefix)
StartsWith(str, prefix) ==
    Len(str) >= Len(prefix) /\ SubSeq(str, 1, Len(prefix)) = prefix

RECURSIVE RemoveEmotes(_)
\* re.sub(r':[a-zA-Z0-9_]+:', '', text): the matches found from left to right, without
\* overlap, are removed; the result is not scanned again.
RemoveEmotes(str) ==
    IF str = <<>> THEN str
    ELSE LET n == RunLength(Tail(str), WordChars)
         IN IF Head(str) = Colon /\ n >= 1 /\ Len(str) >= n + 2 /\ str[n + 2] = Colon
            THEN RemoveEmotes(Drop(str, n + 2))
            ELSE <<Head(str)>> \o RemoveEmotes(Tail(str))

\* The length of the scheme https?:// str starts with, 0 when it starts with none.
SchemeLength(str) ==
    IF StartsWith(str, <<"h", "t", "t", "p", "s", Colon, Slash, Slash>>) THEN 8
    ELSE IF StartsWith(str, <<"h", "t", "t", "p", Colon, Slash, Slash>>) THEN 7
    ELSE 0

RECURSIVE RemoveUrls(_)
\* re.sub(r'https?://\S+', '', text).
RemoveUrls(str) ==
    IF str = <<>> THEN str
    ELSE LET h == SchemeLength(str)
             n == RunLength(Drop(str, h), NonSpaceChars)
         IN IF h > 0 /\ n >= 1
            THEN RemoveUrls(Drop(str, h + n))
            ELSE <<Head(str)>> \o RemoveUrls(Tail(str))

RECURSIVE CollapseSpaces(_)
\* re.sub(r'\s+', ' ', text)
CollapseSpaces(str) ==
    IF str = <<>> THEN str
    ELSE LET n == RunLength(str, SpaceChars)
         IN IF n >= 1 THEN <<Space>> \o CollapseSpaces(Drop(str, n))
            ELSE <<Head(str)>> \o CollapseSpaces(Tail(str))

RECURSIVE Strip(_)
\* str.strip()
Strip(str) ==
    IF str = <<>> THEN str
    ELSE IF Head(str) \in SpaceChars THEN Strip(Tail(str))
    ELSE IF str[Len(str)] \in SpaceChars THEN Strip(SubSeq(str, 1, Len(str) - 1))
    ELSE str

\* re.sub(r'[<>{}[\]|\\^~`]', '', text)
RemoveSpecial(str) == SelectSeq(str, LAMBDA ch : ch \notin SpecialChars)

RECURSIVE CollapseRepeats(_)
\* re.sub(r'(.)\1{3,}', r'\1\1', text): a run of four or more of one character
\* becomes two of it.
CollapseRepeats(str) ==
    IF str = <<>> THEN str
    ELSE LET n == RunLength(str, {Head(str)})
         IN IF n >= 4 THEN <<Head(str), Head(str)>> \o CollapseRepeats(Drop(str, n))
            ELSE SubSeq(str, 1, n) \o CollapseRepeats(Drop(str, n))

\* _clean_text(text).
CleanText(text) ==
    CollapseRepeats(RemoveSpecial(Strip(CollapseSpaces(RemoveUrls(RemoveEmotes(text))))))

\* The text given first, the argument and the result of the last _clean_text call,
\* and the number of calls made, each on the result of the one before.
Cleaned(text, given, out, calls) ==
    [text |-> text, given |-> given, out |-> out, calls |-> calls]

\* self._clean_text(text), called on the text at hand and then on its own result.
CleanTextCall ==
    /\ cret.calls < 2
    /\ cret' = Cleaned(cret.text, cret.out, CleanText(cret.out), cret.calls + 1)
    /\ UNCHANGED <<qvars, cvars, tvars, lvars, hvars, avars, pvars, mret, evars, wvars, svars>>

\* process_event(event) has returned `ret` at the given stage without building a message.
ProcOp(stage, ret) == [Op("process_event", NoId, ret, NoId) EXCEPT !.stage = stage]

\* process_event where the failure of a stage is raised to the caller.
ProcRaised(stage) ==
    /\ lastOp' = ProcOp(stage, "Raised")
    /\ emitted' = <<>>
    /\ UNCHANGED <<queue, messages, current, seen, tokens, nextId, overtaken>>

\* process_event: `return False` before a TTSMessage is built: the event type is
\* disabled, below its threshold, not formatted, or synthesize raised and the
\* exception was logged.
ProcRejected(stage) ==
    /\ lastOp' = ProcOp(stage, "False")
    /\ emitted' = <<>>
    /\ UNCHANGED <<queue, messages, current, seen, tokens, nextId, overtaken>>

\* process_event: the TTSMessage is built with the audio path synthesize returned and
\* the result of add_message is returned.
ProcAdd ==
    /\ nextId < MaxMsgs
    /\ \E m \in AdapterMessages : AddDuplicate(m) \/ AddRateLimited(m) \/ AddAccepted(m)
    /\ nextId' = nextId + 1

\* A process_event that offers the message first and synthesizes only once the queue
\* has accepted it.
ProcessEventQueueFirst ==
    /\ \E event \in Events :
            /\ pevent' = event
            /\ IF ~IsEventEnabled(event) THEN ProcRejected("enabled") /\ synthCalls' = 0
               ELSE IF ~MeetsThreshold(event)
               THEN ProcRejected("threshold") /\ synthCalls' = 0
               ELSE \/ ProcRejected("format") /\ synthCalls' = 0
                    \/ ProcRejected("empty") /\ synthCalls' = 1
                    \/ ProcRejected("synthesize") /\ synthCalls' = 1
                    \/ ProcAdd /\ synthCalls' = IF lastOp'.ret = "True" THEN 1 ELSE 0
    /\ UNCHANGED <<now, cvars, tvars, lvars, hvars, avars, fvars, evars, wvars>>
    /\ Track

\* EventProcessor.process_event(event). For an enabled event that meets its threshold
\* the outcomes are: _format_message returns no text ("format"); the cleaned text is
\* empty and synthesize raises ValueError ("empty"); the backend or the cache write
\* fails ("synthesize"); the message is built and offered to the queue.
ProcessEvent ==
    /\ \E event \in Events :
            /\ pevent' = event
            /\ IF ~IsEventEnabled(event) THEN ProcRejected("enabled") /\ synthCalls' = 0
               ELSE IF ~MeetsThreshold(event)
               THEN ProcRejected("threshold") /\ synthCalls' = 0
               ELSE \/ ProcRejected("format") /\ synthCalls' = 0
                    \/ ProcRejected("empty") /\ synthCalls' = 1
                    \/ ProcRejected("synthesize") /\ synthCalls' = 1
                    \/ ProcAdd /\ synthCalls' = 1
    /\ UNCHANGED <<now, cvars, tvars, lvars, hvars, avars, fvars, evars, wvars>>
    /\ Track

\* QueueService.get_next() called directly.
GetNext ==
    /\ queue' = GetNextQueue(queue)
    /\ messages' = GetNextMessages(queue, messages)
    /\ current' = GetNextCurrent(queue, current)
    /\ lastOp' = Op("get_next", GetNextMessage(queue).id, "None", NoId)
    /\ overtaken' = OvertakenAfterPoll(queue, overtaken)
    /\ emitted' = <<>>
    /\ UNCHANGED <<seen, tokens, now, nextId, cvars, tvars, lvars, hvars, avars, pvars, fvars, evars, wvars>>
    /\ Track

\* mark_complete(message_id) has run for a client ack: whether the id matched the
\* current message.
AckOp(op, message_id, cur) ==
    [Op(op, message_id, "None", NoId) EXCEPT
        !.stage = IF cur.id = message_id THEN "match" ELSE "stale"]

\* A bug mark_complete could have: clear current on a match and never call _send_next.
MarkCompleteNoAdvance(op, message_id) ==
    /\ current' = MarkCompleteCurrent(current, message_id)
    /\ lastOp' = AckOp(op, message_id, current)
    /\ emitted' = <<>>
    /\ UNCHANGED <<queue, messages, seen, tokens, now, nextId, overtaken, cvars, tvars, lvars, hvars, avars, pvars, fvars, evars, wvars>>
    /\ Tracked({}, {message_id})

\* QueueService.mark_complete(message_id): clear current on a match, then _send_next.
MarkComplete(op, message_id) ==
    /\ current' = GetNextCurrent(queue, MarkCompleteCurrent(current, message_id))
    /\ queue' = GetNextQueue(queue)
    /\ messages' = GetNextMessages(queue, messages)
    /\ lastOp' = AckOp(op, message_id, current)
    /\ overtaken' = OvertakenAfterPoll(queue, overtaken)
    /\ emitted' = SendNextEvents(GetNextMessage(queue))
    /\ UNCHANGED <<seen, tokens, now, nextId, cvars, tvars, lvars, hvars, avars, pvars, fvars, evars, wvars>>
    /\ Tracked({}, {message_id})

\* A handler whose data carries no id: nothing is called.
NoIdAck(op) ==
    /\ lastOp' = Op(op, NoId, "None", NoId)
    /\ emitted' = <<>>
    /\ UNCHANGED <<queue, messages, current, seen, tokens, now, nextId, overtaken,
                   cvars, tvars, lvars, hvars, avars, pvars, fvars, evars, wvars>>
    /\ Track

\* websocket.py handle_play_complete(data), data.get("id") drawn from the ids and None.
HandlePlayComplete ==
    \E id \in AckIds :
        IF id # NoId THEN MarkComplete("play_complete", id) ELSE NoIdAck("play_complete")

\* An error handler that only logs the error.
HandleErrorLogged ==
    /\ \E id \in AckIds : lastOp' = AckOp("error", id, current)
    /\ emitted' = <<>>
    /\ UNCHANGED <<queue, messages, current, seen, tokens, now, nextId, overtaken,
                   cvars, tvars, lvars, hvars, avars, pvars, fvars, evars, wvars>>
    /\ Track

\* websocket.py handle_error(data), data.get("id") drawn from the ids and None.
HandleError ==
    \E id \in AckIds :
        IF id # NoId THEN MarkComplete("error", id) ELSE NoIdAck("error")

\* The elements of a sequence.
Range(l) == {l[i] : i \in DOMAIN l}

\* The browser source answers a tts_ready it has received and not answered yet:
\* handle_play_complete or handle_error with the id of that message.
AckReady ==
    \E id \in Range(hist.sent) \ hist.acked :
        MarkComplete("play_complete", id) \/ MarkComplete("error", id)

\* QueueService.skip_current(): clear current, emit skip, then _send_next.
SkipCurrent ==
    /\ current' = GetNextCurrent(queue, SkipCurrentCurrent(current))
    /\ queue' = GetNextQueue(queue)
    /\ messages' = GetNextMessages(queue, messages)
    /\ lastOp' = Op("skip_current", NoId, "None", NoId)
    /\ overtaken' = OvertakenAfterPoll(queue, overtaken)
    /\ emitted' = <<Event("skip", NoId, 0)>> \o SendNextEvents(GetNextMessage(queue))
    /\ UNCHANGED <<seen, tokens, now, nextId, cvars, tvars, lvars, hvars, avars, pvars, fvars, evars, wvars>>
    /\ Tracked({current.id} \ {NoId}, {})

\* A bug clear_queue could have: drop the current message together with the queue.
ClearQueueAll ==
    /\ queue' = <<>>
    /\ messages' = {}
    /\ current' = NoneMsg
    /\ tokens' = TokensAfterRemaining(tokens, now)
    /\ lastOp' = Op("clear_queue", NoId, "None", NoId)
    /\ overtaken' = {}
    /\ emitted' = <<QueueUpdateEvent(<<>>, NoneMsg)>>
    /\ UNCHANGED <<seen, now, nextId, cvars, tvars, lvars, hvars, avars, pvars, fvars, evars, wvars>>
    /\ Track

\* QueueService.clear_queue(): drain the heap and the index, then notify.
ClearQueue ==
    /\ queue' = <<>>
    /\ messages' = {}
    /\ tokens' = TokensAfterRemaining(tokens, now)
    /\ lastOp' = Op("clear_queue", NoId, "None", NoId)
    /\ overtaken' = {}
    /\ emitted' = <<QueueUpdateEvent(<<>>, current)>>
    /\ UNCHANGED <<current, seen, now, nextId, cvars, tvars, lvars, hvars, avars, pvars, fvars, evars, wvars>>
    /\ Track

\* time.time() advances.
Tick ==
    /\ now < MaxTime
    /\ now' = now + 1
    /\ lastOp' = Op("tick", NoId, "None", NoId)
    /\ emitted' = <<>>
    /\ UNCHANGED <<queue, messages, current, seen, tokens, nextId, overtaken, cvars, tvars, lvars, hvars, avars, pvars, fvars, evars, wvars>>
    /\ Track


\* ------------------------------------------------------------------------
\* TTSService: synthesize and the audio cache
\* ------------------------------------------------------------------------
Chars == {"a", " "}
Ellipsis == "..."

\* The texts a caller may pass to synthesize.
SynthTexts == UNION {[1..n -> Chars] : n \in 0..MaxTextLen}

\* synthesize: `not text or not text.strip()`.
IsBlank(text) == \A i \in DOMAIN text : text[i] = " "

\* synthesize: "Truncate if needed": text[:max] + "...".
Truncate(text) ==
    IF Len(text) > TTS_MAX_MESSAGE_LENGTH
    THEN Append(SubSeq(text, 1, TTS_MAX_MESSAGE_LENGTH), Ellipsis)
    ELSE text

TTS_VOICE == "voice"
TTS_SPEED == "speed"

\* _get_cache_key: the digest of "text|voice|speed" (a digest is taken to be
\* collision-free: it is modelled by what it is computed from).
GetCacheKey(text) == <<text, TTS_VOICE, TTS_SPEED>>

NoKey == GetCacheKey(<<>>)

\* A file <key>.wav of the cache directory.
File(key, mtime, size, complete) ==
    [key |-> key, mtime |-> mtime, size |-> size, complete |-> complete]

\* cached_path.exists() / get_audio_path: the file is there, written completely or not.
Exists(files, key) == \E f \in files : f.key = key

\* open(cached_path, "wb") and what is written: the directory with the file replaced.
PutFile(files, f) == {x \in files : x.key # f.key} \cup {f}

Returned(status, key) == [status |-> status, key |-> key]

\* A bug _cleanup_cache could have: no file ever expires.
RemoveExpiredNever(files, t) == files

\* _cleanup_cache, "Remove expired files": the directory afterwards.
RemoveExpired(files, t) == {f \in files : ~(t - f.mtime > AUDIO_CACHE_TTL)}

RECURSIVE TotalSize(_)
\* _cleanup_cache: total_size = sum(f.stat().st_size for f in cache_files).
TotalSize(files) ==
    IF files = {} THEN 0
    ELSE LET f == CHOOSE x \in files : TRUE
         IN f.size + TotalSize(files \ {f})

RECURSIVE RemoveOldest(_)
\* _cleanup_cache, "Remove oldest files until under limit": the directories that can
\* be left (files of equal mtime are removed in the order the directory lists them).
RemoveOldest(files) ==
    LET oldest == {f \in files : \A g \in files : f.mtime <= g.mtime}
    IN IF TotalSize(files) > AUDIO_CACHE_MAX_SIZE /\ files # {}
       THEN UNION {RemoveOldest(files \ {f}) : f \in oldest}
       ELSE {files}

\* _cleanup_cache: the directories that can be left.
CleanupCache(files, t) == RemoveOldest(RemoveExpired(files, t))

\* The bytes (their size) of the file <key>.wav, 0 when it is not there.
FileSize(files, key) ==
    IF Exists(files, key) THEN (CHOOSE f \in files : f.key = key).size ELSE 0

\* History, when a call that found or wrote <key>.wav in the directory `before`
\* returns its path and leaves the directory `files`: the artifact returned for key,
\* and which returned artifacts are still in the cache.
DoneAfter(done, key, before, files) ==
    {[d EXCEPT !.kept = d.kept /\ Exists(files, d.key)] : d \in {x \in done : x.key # key}}
        \cup {[key |-> key, size |-> FileSize(before, key), kept |-> Exists(files, key)]}

TReturn(c, status, key) ==
    /\ tpc' = [tpc EXCEPT ![c] = "idle"]
    /\ tret' = [tret EXCEPT ![c] = Returned(status, key)]
    /\ tkey' = [tkey EXCEPT ![c] = NoKey]
    /\ taudio' = [taudio EXCEPT ![c] = 0]

\* synthesize(text) is called: the empty-text check, the truncation and the cache key.
SynthStart(c) ==
    /\ tpc[c] = "idle"
    /\ \E text \in SynthTexts :
        IF IsBlank(text)
        THEN /\ TReturn(c, "ValueError", NoKey)
        ELSE /\ tkey' = [tkey EXCEPT ![c] = GetCacheKey(Truncate(text))]
             /\ tpc' = [tpc EXCEPT ![c] = "exists"]
             /\ tret' = [tret EXCEPT ![c] = Returned("none", NoKey)]
             /\ UNCHANGED taudio
    /\ tcalled' = [tcalled EXCEPT ![c] = FALSE]
    /\ UNCHANGED <<cacheFiles, tlock, tdone, qvars, cvars, lvars, hvars, avars, pvars, fvars, evars, wvars, svars>>

\* synthesize without the cache test: every call goes on to the backend.
SynthCheckCacheNoHit(c) ==
    /\ tpc[c] = "exists"
    /\ tpc' = [tpc EXCEPT ![c] = "backend"]
    /\ UNCHANGED <<tkey, taudio, tret, tdone, cacheFiles, tlock, tcalled, qvars, cvars, lvars, hvars, avars, pvars, fvars, evars, wvars, svars>>

\* synthesize: `if cache and cached_path.exists(): return str(cached_path)`.
SynthCheckCache(c) ==
    /\ tpc[c] = "exists"
    /\ IF Exists(cacheFiles, tkey[c])
       THEN /\ TReturn(c, "ok", tkey[c])
            /\ tdone' = DoneAfter(tdone, tkey[c], cacheFiles, cacheFiles)
       ELSE /\ tpc' = [tpc EXCEPT ![c] = "backend"]
            /\ UNCHANGED <<tkey, taudio, tret, tdone>>
    /\ UNCHANGED <<cacheFiles, tlock, tcalled, qvars, cvars, lvars, hvars, avars, pvars, fvars, evars, wvars, svars>>

\* synthesize: self._protocol.synthesize(text, voice) returns audio or raises.
SynthBackend(c) ==
    /\ tpc[c] = "backend"
    /\ tcalled' = [tcalled EXCEPT ![c] = TRUE]
    /\ \/ \E n \in 1..MaxAudioSize :
            /\ taudio' = [taudio EXCEPT ![c] = n]
            /\ tpc' = [tpc EXCEPT ![c] = "open"]
            /\ UNCHANGED <<tkey, tret>>
       \/ TReturn(c, "RuntimeError", NoKey)
    /\ UNCHANGED <<cacheFiles, tlock, tdone, qvars, cvars, lvars, hvars, avars, pvars, fvars, evars, wvars, svars>>

\* synthesize: `with self._lock: cached_path.write_bytes(...)`: the file is opened
\* (created or truncated) at its final path.
SynthOpen(c) ==
    /\ tpc[c] = "open"
    /\ tlock = None
    /\ tlock' = c
    /\ cacheFiles' = PutFile(cacheFiles, File(tkey[c], now, 0, FALSE))
    /\ tpc' = [tpc EXCEPT ![c] = "write"]
    /\ UNCHANGED <<tkey, taudio, tcalled, tret, tdone, qvars, cvars, lvars, hvars, avars, pvars, fvars, evars, wvars, svars>>

\* synthesize: write_bytes writes the audio and closes the file; the lock is released.
SynthWrite(c) ==
    /\ tpc[c] = "write"
    /\ tlock' = None
    /\ cacheFiles' = PutFile(cacheFiles, File(tkey[c], now, taudio[c], TRUE))
    /\ tpc' = [tpc EXCEPT ![c] = "cleanup"]
    /\ UNCHANGED <<tkey, taudio, tcalled, tret, tdone, qvars, cvars, lvars, hvars, avars, pvars, fvars, evars, wvars, svars>>

\* synthesize: self._cleanup_cache(), then `return str(cached_path)`.
SynthCleanup(c) ==
    /\ tpc[c] = "cleanup"
    /\ cacheFiles' \in CleanupCache(cacheFiles, now)
    /\ tdone' = DoneAfter(tdone, tkey[c], cacheFiles, cacheFiles')
    /\ TReturn(c, "ok", tkey[c])
    /\ UNCHANGED <<tlock, tcalled, qvars, cvars, lvars, hvars, avars, pvars, fvars, evars, wvars, svars>>

\* datetime.now() and the clock of the file system advance.
CacheTick ==
    /\ now < MaxCacheTime
    /\ now' = now + 1
    /\ UNCHANGED <<queue, messages, current, seen, tokens, nextId, lastOp, overtaken,
                   emitted, cvars, tvars, lvars, hvars, avars, pvars, fvars, evars, wvars, svars>>

\* ------------------------------------------------------------------------
\* AudioSpec: the audio retrieval route
\* ------------------------------------------------------------------------
\* The characters of the audio ids a client sends.
AudioChars == {Slash, Backslash, Dot, "a"}

\* The audio ids a client may request.
AudioIds == UNION {[1..n -> AudioChars] : n \in 1..MaxAudioIdLen}

\* _get_cache_key: one character of hexdigest()[:16] per character of the text (the
\* digest is collision-free and made of hexadecimal digits).
HexChar(ch) == IF ch = "a" THEN "a" ELSE IF ch = " " THEN "0" ELSE "e"

\* synthesize: the stem of cached_path, f"{cache_key}.wav".
HexDigest(key) == [i \in DOMAIN key[1] |-> HexChar(key[1][i])]

\* @api_bp.route("/audio/<audio_id>"): the default converter matches one non-empty
\* path segment, a segment holding no "/".
RouteMatches(audio_id) ==
    audio_id # <<>> /\ \A i \in DOMAIN audio_id : audio_id[i] # Slash

\* str.replace(ch, ""): every occurrence of the character is removed.
RemoveChar(str, ch) == SelectSeq(str, LAMBDA x : x # ch)

RECURSIVE RemoveDotDot(_)
\* str.replace("..", ""): the occurrences found from left to right, without overlap,
\* are removed; the result is not scanned again.
RemoveDotDot(str) ==
    IF Len(str) < 2 THEN str
    ELSE IF str[1] = Dot /\ str[2] = Dot THEN RemoveDotDot(SubSeq(str, 3, Len(str)))
    ELSE <<str[1]>> \o RemoveDotDot(Tail(str))

\* A bug the sanitizer could have: the two dots are not removed.
SanitizeKeepingDots(audio_id) == RemoveChar(RemoveChar(audio_id, Slash), Backslash)

\* get_audio: audio_id.replace("/", "").replace("\\", "").replace("..", "").
Sanitize(audio_id) == RemoveDotDot(RemoveChar(RemoveChar(audio_id, Slash), Backslash))

\* get_audio_path(audio_id): the file <audio_id>.wav of the cache directory exists.
GetAudioPath(files, audio_id) == \E f \in files : HexDigest(f.key) = audio_id

\* The response to a request: whether the route matched, the handle looked up, the
\* status, and whether a file was sent.
Response(audio_id, routed, handle, status) ==
    [audio_id |-> audio_id, routed |-> routed, handle |-> handle, status |-> status,
     sent |-> status = 200]

\* GET /audio/<audio_id>: get_audio(audio_id) when the route matches, else 404.
GetAudio ==
    /\ \E audio_id \in AudioIds :
        aret' = IF ~RouteMatches(audio_id) THEN Response(audio_id, FALSE, <<>>, 404)
                ELSE IF GetAudioPath(cacheFiles, Sanitize(audio_id))
                     THEN Response(audio_id, TRUE, Sanitize(audio_id), 200)
                     ELSE Response(audio_id, TRUE, Sanitize(audio_id), 404)
    /\ UNCHANGED <<qvars, cvars, tvars, lvars, hvars, pvars, fvars, evars, wvars, svars>>

\* ------------------------------------------------------------------------
\* LimiterSpec: a RateLimiter and a DuplicateDetector called directly
\* ------------------------------------------------------------------------
LimiterTexts == 1..MaxLimiterTexts

\* The result of a call: the operation, its key or text, and what it returned.
Called(op, key, text, ret, n) == [op |-> op, key |-> key, text |-> text, ret |-> ret, n |-> n]

\* An is_allowed that counts the tokens of all keys against the one budget.
LimiterIsAllowedShared(key) ==
    /\ LET kept == RemoveOld(ltokens[key], lnow, LIMITER_WINDOW)
           ok == Len(RemoveOld(ltokens["twitch"], lnow, LIMITER_WINDOW))
                    + Len(RemoveOld(ltokens["youtube"], lnow, LIMITER_WINDOW)) < LIMITER_RATE
       IN /\ ltokens' = [ltokens EXCEPT ![key] = IF ok THEN Append(kept, lnow) ELSE kept]
          /\ admitted' = [admitted EXCEPT ![key] = IF ok THEN Append(@, lnow) ELSE @]
          /\ lret' = Called("is_allowed", key, 0, IF ok THEN "True" ELSE "False", 0)
    /\ UNCHANGED <<lseen, lnow, accepted, qvars, cvars, tvars, hvars, avars, pvars, fvars, evars, wvars, svars>>

\* RateLimiter.is_allowed(key).
LimiterIsAllowed(key) ==
    /\ LET kept == RemoveOld(ltokens[key], lnow, LIMITER_WINDOW)
           ok == Len(kept) < LIMITER_RATE
       IN /\ ltokens' = [ltokens EXCEPT ![key] = IF ok THEN Append(kept, lnow) ELSE kept]
          /\ admitted' = [admitted EXCEPT ![key] = IF ok THEN Append(@, lnow) ELSE @]
          /\ lret' = Called("is_allowed", key, 0, IF ok THEN "True" ELSE "False", 0)
    /\ UNCHANGED <<lseen, lnow, accepted, qvars, cvars, tvars, hvars, avars, pvars, fvars, evars, wvars, svars>>

\* max(0, a).
Max0(a) == IF a > 0 THEN a ELSE 0

\* RateLimiter.get_remaining(key).
LimiterGetRemaining(key) ==
    /\ LET kept == RemoveOld(ltokens[key], lnow, LIMITER_WINDOW)
       IN /\ ltokens' = [ltokens EXCEPT ![key] = kept]
          /\ lret' = Called("get_remaining", key, 0, "None", Max0(LIMITER_RATE - Len(kept)))
    /\ UNCHANGED <<lseen, lnow, admitted, accepted, qvars, cvars, tvars, hvars, avars, pvars, fvars, evars, wvars, svars>>

\* DuplicateDetector.is_duplicate(text).
DetectorIsDuplicate(text) ==
    /\ lseen' = SeenAfterIn(lseen, text, lnow, DETECTOR_WINDOW)
    /\ LET dup == IsDuplicateIn(lseen, text, lnow, DETECTOR_WINDOW)
       IN /\ accepted' = [accepted EXCEPT ![text] = IF dup THEN @ ELSE lnow]
          /\ lret' = Called("is_duplicate", None, text, IF dup THEN "True" ELSE "False", 0)
    /\ UNCHANGED <<ltokens, lnow, admitted, qvars, cvars, tvars, hvars, avars, pvars, fvars, evars, wvars, svars>>

\* time.time() advances between two calls.
LimiterTick ==
    /\ lnow < MaxLimiterTime
    /\ lnow' = lnow + 1
    /\ lret' = Called("tick", None, 0, "None", 0)
    /\ UNCHANGED <<ltokens, lseen, admitted, accepted, qvars, cvars, tvars, hvars, avars, pvars, fvars, evars, wvars, svars>>

\* ------------------------------------------------------------------------
\* EventSpec: construction of the events with variant kinds (TwitchSubEvent,
\* TwitchGiftSubEvent, YouTubeMembershipEvent) and their way to the queue
\* ------------------------------------------------------------------------
EventClasses == {"TwitchSubEvent", "TwitchGiftSubEvent", "YouTubeMembershipEvent"}
Tiers == 1..MaxTier

\* The class default of the field event_type.
ClassDefaultKind(cls) ==
    IF cls = "TwitchSubEvent" THEN "twitch_sub_new"
    ELSE IF cls = "TwitchGiftSubEvent" THEN "twitch_gift_single"
    ELSE "youtube_membership_new"

\* The dataclass __init__ of the three classes: the fields as given, event_type at its
\* class default (no caller passes event_type).
VariantEvent(cls, count, is_resub, is_milestone, tier, is_anonymous) ==
    [cls |-> cls, kind |-> ClassDefaultKind(cls), amount |-> 0, count |-> count,
     is_resub |-> is_resub, is_milestone |-> is_milestone, tier |-> tier,
     is_anonymous |-> is_anonymous]

NoVariant == [VariantEvent("TwitchSubEvent", 0, FALSE, FALSE, 1, FALSE) EXCEPT !.cls = None,
                                                                             !.kind = None]

\* __post_init__ of the three classes.
PostInit(event) ==
    IF event.cls = "TwitchSubEvent" /\ event.is_resub
    THEN [event EXCEPT !.kind = "twitch_sub_resub"]
    ELSE IF event.cls = "TwitchGiftSubEvent" /\ event.count > 1
    THEN [event EXCEPT !.kind = "twitch_gift_multi"]
    ELSE IF event.cls = "YouTubeMembershipEvent" /\ event.is_milestone
    THEN [event EXCEPT !.kind = "youtube_membership_milestone"]
    ELSE event

\* The field values the constructors are called with: from_eventsub_subscribe
\* (is_resub=False), from_eventsub_message (is_resub=True), from_eventsub
\* (count=data.get("total", 1)), from_livechat (is_milestone as given) and
\* inject_test_event (count, is_resub, is_milestone from the request).
EventArgs ==
    {VariantEvent("TwitchSubEvent", 1, r, FALSE, t, FALSE) : r \in BOOLEAN, t \in Tiers}
        \cup {VariantEvent("TwitchGiftSubEvent", c, FALSE, FALSE, t, a) :
                    c \in 0..MaxGiftCount, t \in Tiers, a \in BOOLEAN}
        \cup {VariantEvent("YouTubeMembershipEvent", 1, FALSE, m, 1, FALSE) : m \in BOOLEAN}

\* An event on its way: the object and how far it has come.
Staged(event, stage) == [event |-> event, stage |-> stage]

\* cls(...): the generated __init__ ends with __post_init__.
ConstructEvent ==
    /\ sevent.stage = "args"
    /\ sevent' = Staged(PostInit(sevent.event), "constructed")
    /\ UNCHANGED <<qvars, cvars, tvars, lvars, hvars, avars, pvars, fvars, wvars, svars>>

\* process_event(event) of the constructed event: it is rejected by the enable check or
\* the threshold, or not formatted, or synthesize fails, or the TTSMessage holding the
\* event is handed to add_message. No branch assigns to the event.
DispatchEvent ==
    /\ sevent.stage = "constructed"
    /\ \E stage \in IF ~IsEventEnabled(sevent.event) THEN {"enabled"}
                    ELSE IF ~MeetsThreshold(sevent.event) THEN {"threshold"}
                    ELSE {"format", "synthesize", "dispatched"} :
            sevent' = Staged(sevent.event, stage)
    /\ UNCHANGED <<qvars, cvars, tvars, lvars, hvars, avars, pvars, fvars, wvars, svars>>

\* ------------------------------------------------------------------------
\* WyomingSpec: one WyomingProtocol.synthesize call and what the backend sends
\* ------------------------------------------------------------------------
AudioBytes == {0, 1}

\* The payloads of n bytes.
Payloads(n) == [1..n -> AudioBytes]

\* b"".join(audio_chunks).
RECURSIVE Join(_)
Join(chunks) == IF chunks = <<>> THEN <<>> ELSE Head(chunks) \o Join(Tail(chunks))

\* _raw_to_wav(raw_audio): the WAV header and the frames.
RawToWav(raw_audio) ==
    [nchannels |-> 1, sampwidth |-> 2, framerate |-> 22050, nbytes |-> Len(raw_audio),
     frames |-> raw_audio]

\* What the call returned (kind "audio") or raised (kind "error"); "none": still running.
WyReturn(kind, wav, msg) == [kind |-> kind, wav |-> wav, msg |-> msg]

\* The state of a call: its position, the local audio_chunks, the local payload_length
\* of the chunk whose payload is read next, whether the backend has closed the
\* connection, the time since the call started, and the outcome. History: whether an
\* audio-stop event was received, and for every audio-chunk event with a payload its
\* announced payload_length and the payload the backend delivered.
Wyoming(at, audio_chunks, payload_length, closed, elapsed, stopped, sent, ret) ==
    [pc |-> at, audio_chunks |-> audio_chunks, payload_length |-> payload_length,
     closed |-> closed, elapsed |-> elapsed, stopped |-> stopped, sent |-> sent,
     ret |-> ret]

WyomingIdle == Wyoming("idle", <<>>, 0, FALSE, 0, FALSE, <<>>, WyReturn("none", <<>>, None))

\* The call raises: `except socket.timeout`, `except ConnectionRefusedError`, or the
\* RuntimeError of the loop re-raised by `except Exception`.
WyRaise(w, elapsed, msg) ==
    [w EXCEPT !.pc = "raised", !.elapsed = elapsed, !.ret = WyReturn("error", <<>>, msg)]

\* After the loop: `if not audio_chunks: raise RuntimeError(...)`, else the chunks are
\* joined and returned as WAV.
WyAfterLoop(w, elapsed) ==
    IF w.audio_chunks = <<>> THEN WyRaise(w, elapsed, "No audio data received")
    ELSE [w EXCEPT !.pc = "returned", !.elapsed = elapsed,
                   !.ret = WyReturn("audio", RawToWav(Join(w.audio_chunks)), None)]

\* The waits of one socket operation that ends before sock.settimeout(30) strikes.
Waits(w) == {d \in 0..(SOCKET_TIMEOUT - 1) : w.elapsed + d <= MaxElapsed}

\* synthesize up to the loop: the socket gets its timeout, connects (refused, timed
\* out, or connected) and the request is sent.
WySynthesize ==
    /\ wy.pc = "idle"
    /\ \/ wy' = WyRaise(wy, 0, "Cannot connect to TTS service")
       \/ wy' = WyRaise(wy, SOCKET_TIMEOUT, "TTS request timed out")
       \/ \E d \in Waits(wy) : wy' = [wy EXCEPT !.pc = "receive_event", !.elapsed = d]
    /\ UNCHANGED <<qvars, cvars, tvars, lvars, hvars, avars, pvars, fvars, evars, svars>>

\* One turn of the loop up to the payload: _receive_event returns None (connection
\* closed, or a header that is not a number) and the loop is left; or it returns an
\* audio-chunk (its payload is read next if payload_length > 0), an audio-stop (the loop
\* is left), an error (RuntimeError) or an event of another type (ignored); or no byte
\* arrives for the time of the socket timeout.
WyReceiveEvent ==
    /\ wy.pc = "receive_event"
    /\ IF wy.closed THEN wy' = WyAfterLoop(wy, wy.elapsed)
       ELSE \/ /\ wy.elapsed + SOCKET_TIMEOUT <= MaxElapsed
               /\ wy' = WyRaise(wy, wy.elapsed + SOCKET_TIMEOUT, "TTS request timed out")
            \/ \E d \in Waits(wy) :
                \/ wy' = WyAfterLoop([wy EXCEPT !.closed = TRUE], wy.elapsed + d)
                \/ wy' = WyAfterLoop([wy EXCEPT !.stopped = TRUE], wy.elapsed + d)
                \/ wy' = WyRaise(wy, wy.elapsed + d, "TTS error")
                \/ wy' = [wy EXCEPT !.elapsed = wy.elapsed + d]
                \/ /\ Len(wy.sent) < MaxChunks
                   /\ \E n \in 1..MaxPayload :
                        wy' = [wy EXCEPT !.pc = "receive_payload", !.payload_length = n,
                                         !.elapsed = wy.elapsed + d]
    /\ UNCHANGED <<qvars, cvars, tvars, lvars, hvars, avars, pvars, fvars, evars, svars>>

\* _receive_payload(sock, payload_length) and the rest of the turn: the bytes that
\* arrive are collected until payload_length bytes are there or recv returns b""
\* (connection closed); what was collected is appended to audio_chunks unless it is
\* empty. Or no byte arrives for the time of the socket timeout.
WyReceivePayload ==
    /\ wy.pc = "receive_payload"
    /\ \/ /\ wy.elapsed + SOCKET_TIMEOUT <= MaxElapsed
          /\ wy' = WyRaise(wy, wy.elapsed + SOCKET_TIMEOUT, "TTS request timed out")
       \/ \E d \in Waits(wy), m \in 0..wy.payload_length :
            \E data \in Payloads(m) :
                wy' = [wy EXCEPT !.pc = "receive_event",
                                 !.audio_chunks = IF m > 0 THEN Append(@, data) ELSE @,
                                 !.closed = (m < wy.payload_length),
                                 !.elapsed = wy.elapsed + d,
                                 !.sent = Append(@, [payload_length |-> wy.payload_length,
                                                     payload |-> data])]
    /\ UNCHANGED <<qvars, cvars, tvars, lvars, hvars, avars, pvars, fvars, evars, svars>>

Threads == {"adapter1", "adapter2", "client"}
Callers == {"caller1", "caller2"}

\* QueueService.__init__ and TTSService.__init__ with an empty cache directory.
Constructed ==
    /\ queue = <<>>
    /\ messages = {}
    /\ current = NoneMsg
    /\ seen = [x \in Texts |-> NoTime]
    /\ tokens = [k \in Platforms |-> <<>>]
    /\ now = 0
    /\ nextId = 0
    /\ lastOp = Op("init", NoId, "None", NoId)
    /\ overtaken = {}
    /\ emitted = <<>>
    /\ pc = [t \in Threads |-> "idle"]
    /\ arg = [t \in Threads |-> NoneMsg]
    /\ polled = [t \in Threads |-> NoneMsg]
    /\ cacheFiles = {}
    /\ tlock = None
    /\ tpc = [c \in Callers |-> "idle"]
    /\ tkey = [c \in Callers |-> NoKey]
    /\ taudio = [c \in Callers |-> 0]
    /\ tcalled = [c \in Callers |-> FALSE]
    /\ tret = [c \in Callers |-> Returned("none", NoKey)]
    /\ tdone = {}
    /\ ltokens = [k \in Platforms |-> <<>>]
    /\ lseen = [x \in LimiterTexts |-> NoTime]
    /\ lnow = 0
    /\ lret = Called("init", None, 0, "None", 0)
    /\ admitted = [k \in Platforms |-> <<>>]
    /\ accepted = [x \in LimiterTexts |-> NoTime]
    /\ hq = <<>>
    /\ hout = NoneMsg
    /\ aret = Response(<<>>, FALSE, <<>>, 0)
    /\ pevent = NoEvent
    /\ synthCalls = 0
    /\ wy = WyomingIdle

Init ==
    /\ Constructed
    /\ sevent = Staged(NoVariant, "none")
    /\ hist = History(FALSE, <<>>, {}, {})
    /\ mret = Threshold(NoEvent, FALSE, FALSE)
    /\ cret = Cleaned(<<>>, <<>>, <<>>, 0)

\* The services are constructed and an event is at hand for _meets_threshold.
ThresholdInit ==
    /\ Constructed
    /\ mret \in {Threshold(event, FALSE, FALSE) : event \in ThresholdEvents}
    /\ cret = Cleaned(<<>>, <<>>, <<>>, 0)
    /\ sevent = Staged(NoVariant, "none")
    /\ hist = History(FALSE, <<>>, {}, {})

ThresholdNext == MeetsThresholdCall

ThresholdSpec == ThresholdInit /\ [][ThresholdNext]_vars

\* The services are constructed and a text is at hand for _clean_text.
CleanInit ==
    /\ Constructed
    /\ mret = Threshold(NoEvent, FALSE, FALSE)
    /\ cret \in {Cleaned(text, text, text, 0) : text \in CleanTexts}
    /\ sevent = Staged(NoVariant, "none")
    /\ hist = History(FALSE, <<>>, {}, {})

CleanNext == CleanTextCall

CleanSpec == CleanInit /\ [][CleanNext]_vars

\* The services are constructed and the field values of an event are at hand.
EventInit ==
    /\ Constructed
    /\ mret = Threshold(NoEvent, FALSE, FALSE)
    /\ cret = Cleaned(<<>>, <<>>, <<>>, 0)
    /\ sevent \in {Staged(event, "args") : event \in EventArgs}
    /\ hist = History(FALSE, <<>>, {}, {})

EventNext ==
    \/ ConstructEvent
    \/ DispatchEvent

EventSpec == EventInit /\ [][EventNext]_vars

\* The services are constructed and the history of the dispatcher is kept.
TrackInit ==
    /\ Constructed
    /\ mret = Threshold(NoEvent, FALSE, FALSE)
    /\ cret = Cleaned(<<>>, <<>>, <<>>, 0)
    /\ sevent = Staged(NoVariant, "none")
    /\ hist = History(TRUE, <<>>, {}, {})

\* Messages are offered while a browser source plays what it is sent.
ClientNext ==
    \/ AddMessage
    \/ AckReady
    \/ Tick

\* The browser source answers every tts_ready: an answer that is due is eventually
\* sent.
ClientSpec == TrackInit /\ [][ClientNext]_vars /\ WF_vars(AckReady)

WyomingNext ==
    \/ WySynthesize
    \/ WyReceiveEvent
    \/ WyReceivePayload

WyomingSpec == Init /\ [][WyomingNext]_vars

Next ==
    \/ AddMessage
    \/ GetNext
    \/ HandlePlayComplete
    \/ HandleError
    \/ SkipCurrent
    \/ ClearQueue
    \/ Tick

Spec == Init /\ [][Next]_vars

\* The pipeline as deployed: every message comes from process_event.
ProcNext ==
    \/ ProcessEvent
    \/ HandlePlayComplete
    \/ HandleError
    \/ SkipCurrent
    \/ ClearQueue
    \/ Tick

ProcSpec == Init /\ [][ProcNext]_vars

TtsNext ==
    \/ \E c \in Callers : SynthStart(c)
    \/ \E c \in Callers : SynthCheckCache(c)
    \/ \E c \in Callers : SynthBackend(c)
    \/ \E c \in Callers : SynthOpen(c)
    \/ \E c \in Callers : SynthWrite(c)
    \/ \E c \in Callers : SynthCleanup(c)
    \/ Tick

TtsSpec == Init /\ [][TtsNext]_vars

\* ------------------------------------------------------------------------
\* HeapSpec: the heap of PriorityItem under heappush and heappop
\* ------------------------------------------------------------------------
\* The messages that may be wrapped and pushed: any priority, any creation time.
HeapMessages ==
    {TTSMessage(NoId, 0, priority, None, TRUE, created) :
        priority \in Priorities, created \in 0..MaxHeapTime}

\* add_message: item = PriorityItem(message); heapq.heappush(self._queue, item).
HeapqPush ==
    /\ Len(hq) < MaxHeapLen
    /\ \E m \in HeapMessages : hq' = HeapPush(hq, PriorityItem(m))
    /\ UNCHANGED <<hout, qvars, cvars, tvars, lvars, avars, pvars, fvars, evars, wvars, svars>>

\* get_next: item = heapq.heappop(self._queue); message = item.message.
HeapqPop ==
    /\ hq # <<>>
    /\ hout' = HeapPopItem(hq).message
    /\ hq' = HeapPopRest(hq)
    /\ UNCHANGED <<qvars, cvars, tvars, lvars, avars, pvars, fvars, evars, wvars, svars>>

HeapNext == HeapqPush \/ HeapqPop

HeapSpec == Init /\ [][HeapNext]_vars

LimiterNext ==
    \/ \E key \in Platforms : LimiterIsAllowed(key)
    \/ \E key \in Platforms : LimiterGetRemaining(key)
    \/ \E text \in LimiterTexts : DetectorIsDuplicate(text)
    \/ LimiterTick

LimiterSpec == Init /\ [][LimiterNext]_vars

\* synthesize called while no other call is running: calls made one after the other.
SeqSynthStart(c) ==
    /\ \A d \in Callers : tpc[d] = "idle"
    /\ SynthStart(c)

SeqTtsNext ==
    \/ \E c \in Callers : SeqSynthStart(c)
    \/ \E c \in Callers : SynthCheckCache(c)
    \/ \E c \in Callers : SynthBackend(c)
    \/ \E c \in Callers : SynthOpen(c)
    \/ \E c \in Callers : SynthWrite(c)
    \/ \E c \in Callers : SynthCleanup(c)
    \/ CacheTick

SeqTtsSpec == Init /\ [][SeqTtsNext]_vars

\* The thread that fills the cache while audio is requested.
Synthesizer == "caller1"

AudioNext ==
    \/ SynthStart(Synthesizer)
    \/ SynthCheckCache(Synthesizer)
    \/ SynthBackend(Synthesizer)
    \/ SynthOpen(Synthesizer)
    \/ SynthWrite(Synthesizer)
    \/ SynthCleanup(Synthesizer)
    \/ GetAudio

AudioSpec == Init /\ [][AudioNext]_vars

\* ------------------------------------------------------------------------
\* ConcSpec: the operations run by concurrent threads
\* ------------------------------------------------------------------------
\* Every step below is one lock-protected section, one unlocked read or one emit of
\* the code; the adapter threads run add_message, the client thread runs the
\* play_complete handler.
Adapters == {"adapter1", "adapter2"}

Goto(t, label) == pc' = [pc EXCEPT ![t] = label]

\* The operation of thread t returns: its locals are gone.
Return(t) ==
    /\ pc' = [pc EXCEPT ![t] = "idle"]
    /\ arg' = [arg EXCEPT ![t] = NoneMsg]

\* An adapter thread constructs a TTSMessage and enters add_message.
AddStart(t) ==
    /\ t \in Adapters /\ pc[t] = "idle"
    /\ nextId < MaxConcMsgs
    /\ \E m \in AdapterMessages : arg' = [arg EXCEPT ![t] = m]
    /\ nextId' = nextId + 1
    /\ Goto(t, "is_duplicate")
    /\ emitted' = <<>>
    /\ UNCHANGED <<queue, messages, current, seen, tokens, now, lastOp, overtaken, polled, tvars, lvars, hvars, avars, pvars, fvars, evars, wvars>>
    /\ Track

\* add_message: self._duplicate_detector.is_duplicate(message.text), under its lock.
AddIsDuplicate(t) ==
    /\ t \in Adapters /\ pc[t] = "is_duplicate"
    /\ seen' = SeenAfter(seen, arg[t].text, now)
    /\ IF IsDuplicate(seen, arg[t].text, now)
       THEN Return(t)
       ELSE Goto(t, "is_allowed") /\ UNCHANGED arg
    /\ emitted' = <<>>
    /\ UNCHANGED <<queue, messages, current, tokens, now, nextId, lastOp, overtaken, polled,
                   tvars, lvars, hvars, avars, pvars, fvars, evars, wvars>>
    /\ Track

\* add_message: the rate-limit check (only for a message with an event), under its lock.
AddIsAllowed(t) ==
    /\ t \in Adapters /\ pc[t] = "is_allowed"
    /\ IF arg[t].platform = None
       THEN /\ UNCHANGED <<tokens, arg>>
            /\ Goto(t, "offer")
       ELSE /\ tokens' = TokensAfterAllowed(tokens, arg[t].platform, now)
            /\ IF IsAllowed(tokens, arg[t].platform, now)
               THEN Goto(t, "offer") /\ UNCHANGED arg
               ELSE Return(t)
    /\ emitted' = <<>>
    /\ UNCHANGED <<queue, messages, current, seen, now, nextId, lastOp, overtaken, polled,
                   tvars, lvars, hvars, avars, pvars, fvars, evars, wvars>>
    /\ Track

\* add_message: `with self._queue_lock`: make room on a full queue, push, index.
AddOffer(t) ==
    /\ t \in Adapters /\ pc[t] = "offer"
    /\ queue' = OfferQueue(queue, arg[t])
    /\ messages' = OfferMessages(queue, messages, arg[t])
    /\ overtaken' = OvertakenAfterOffer(queue, overtaken)
    /\ Goto(t, "notify")
    /\ emitted' = <<>>
    /\ UNCHANGED <<current, seen, tokens, now, nextId, lastOp, arg, polled, tvars, lvars, hvars, avars, pvars, fvars, evars, wvars>>
    /\ Track

\* add_message: self._notify_queue_update().
AddNotify(t) ==
    /\ t \in Adapters /\ pc[t] = "notify"
    /\ tokens' = TokensAfterRemaining(tokens, now)
    /\ emitted' = <<QueueUpdateEvent(queue, current)>>
    /\ Goto(t, "check_current")
    /\ UNCHANGED <<queue, messages, current, seen, now, nextId, lastOp, overtaken, arg, polled,
                   tvars, lvars, hvars, avars, pvars, fvars, evars, wvars>>
    /\ Track

\* add_message: `if self._current_message is None`, read without the lock.
AddCheckCurrent(t) ==
    /\ t \in Adapters /\ pc[t] = "check_current"
    /\ IF current = NoneMsg
       THEN Goto(t, "get_next") /\ UNCHANGED arg
       ELSE Return(t)
    /\ emitted' = <<>>
    /\ UNCHANGED <<queue, messages, current, seen, tokens, now, nextId, lastOp, overtaken,
                   polled, tvars, lvars, hvars, avars, pvars, fvars, evars, wvars>>
    /\ Track

\* The client thread enters handle_play_complete with an id and calls mark_complete.
AckStart(t) ==
    /\ t = "client" /\ pc[t] = "idle"
    /\ \E id \in 1..nextId : arg' = [arg EXCEPT ![t] = [NoneMsg EXCEPT !.id = id]]
    /\ Goto(t, "mark_complete")
    /\ emitted' = <<>>
    /\ UNCHANGED <<queue, messages, current, seen, tokens, now, nextId, lastOp, overtaken, polled,
                   tvars, lvars, hvars, avars, pvars, fvars, evars, wvars>>
    /\ Track

\* mark_complete: `with self._queue_lock`: clear the current message on an id match.
AckMarkComplete(t) ==
    /\ t = "client" /\ pc[t] = "mark_complete"
    /\ current' = MarkCompleteCurrent(current, arg[t].id)
    /\ Goto(t, "get_next")
    /\ emitted' = <<>>
    /\ UNCHANGED <<queue, messages, seen, tokens, now, nextId, lastOp, overtaken, arg, polled, tvars, lvars, hvars, avars, pvars, fvars, evars, wvars>>
    /\ Tracked({}, {arg[t].id})

\* _send_next: message = self.get_next(), the whole of get_next under the queue lock.
SendNextGetNext(t) ==
    /\ t \in Threads /\ pc[t] = "get_next"
    /\ polled' = [polled EXCEPT ![t] = GetNextMessage(queue)]
    /\ queue' = GetNextQueue(queue)
    /\ messages' = GetNextMessages(queue, messages)
    /\ current' = GetNextCurrent(queue, current)
    /\ overtaken' = OvertakenAfterPoll(queue, overtaken)
    /\ Goto(t, "emit")
    /\ emitted' = <<>>
    /\ UNCHANGED <<seen, tokens, now, nextId, lastOp, arg, tvars, lvars, hvars, avars, pvars, fvars, evars, wvars>>
    /\ Track

\* _send_next: emit tts_ready for the polled message if it has an audio path; return.
SendNextEmit(t) ==
    /\ t \in Threads /\ pc[t] = "emit"
    /\ emitted' = SendNextEvents(polled[t])
    /\ polled' = [polled EXCEPT ![t] = NoneMsg]
    /\ Return(t)
    /\ UNCHANGED <<queue, messages, current, seen, tokens, now, nextId, lastOp, overtaken, tvars, lvars, hvars, avars, pvars, fvars, evars, wvars>>
    /\ Track

\* A request thread enters skip_current: `with self._queue_lock`: clear the current
\* message.
SkipLocked(t) ==
    /\ t = "client" /\ pc[t] = "idle"
    /\ current' = SkipCurrentCurrent(current)
    /\ Goto(t, "skip")
    /\ emitted' = <<>>
    /\ UNCHANGED <<queue, messages, seen, tokens, now, nextId, lastOp, overtaken, arg, polled,
                   tvars, lvars, hvars, avars, pvars, fvars, evars, wvars>>
    /\ Tracked({current.id} \ {NoId}, {})

\* skip_current: self.socketio.emit("skip", ...), then _send_next.
SkipEmit(t) ==
    /\ t = "client" /\ pc[t] = "skip"
    /\ emitted' = <<Event("skip", NoId, 0)>>
    /\ Goto(t, "get_next")
    /\ UNCHANGED <<queue, messages, current, seen, tokens, now, nextId, lastOp, overtaken, arg,
                   polled, tvars, lvars, hvars, avars, pvars, fvars, evars, wvars>>
    /\ Track

\* A step inside an operation that has started.
ThreadStep(t) ==
    \/ AddIsDuplicate(t)
    \/ AddIsAllowed(t)
    \/ AddOffer(t)
    \/ AddNotify(t)
    \/ AddCheckCurrent(t)
    \/ AckMarkComplete(t)
    \/ SendNextGetNext(t)
    \/ SendNextEmit(t)

ConcNext ==
    \/ \E t \in Threads : AddStart(t)
    \/ \E t \in Threads : AckStart(t)
    \/ \E t \in Threads : ThreadStep(t)

ConcSpec == Init /\ [][ConcNext]_vars

\* A handler that has started runs to completion: every thread's next step is
\* eventually taken.  Nothing obliges a caller or the client to start an operation.
FairSpec == ConcSpec /\ \A t \in Threads : WF_vars(ThreadStep(t))

\* The concurrent threads of ConcSpec and a request thread that runs skip_current,
\* with the history of the dispatcher kept.
DispatchNext ==
    \/ \E t \in Threads : nextId < MaxDispatchMsgs /\ AddStart(t)
    \/ \E t \in Threads : AckStart(t)
    \/ \E t \in Threads : SkipLocked(t)
    \/ \E t \in Threads : SkipEmit(t)
    \/ \E t \in Threads : ThreadStep(t)

DispatchSpec == TrackInit /\ [][DispatchNext]_vars

\* ------------------------------------------------------------------------
\* Claims about the operations executed one at a time (Spec)
\* ------------------------------------------------------------------------
\* The ids of the tts_ready events in a sequence of emitted events.
ReadyIds(evs) == {evs[i].id : i \in {j \in DOMAIN evs : evs[j].ev = "tts_ready"}}

\* The step is a client ack (play_complete or error) carrying the id of the current message.
OwnAck == /\ lastOp'.op \in {"play_complete", "error"}
          /\ current # NoneMsg
          /\ lastOp'.id = current.id

\* The step is a client ack carrying an id, while a message with another id is current.
StaleAck(op) == /\ lastOp'.op = op
                /\ current # NoneMsg
                /\ lastOp'.id # NoId
                /\ lastOp'.id # current.id

\* C1: a tts_ready is emitted only when no message is current: a step that emits
\* tts_ready starts with no current message, or is the ack (play_complete, error)
\* that carries the current message's own id, or is a skip.
ClaimC1 ==
    [][ReadyIds(emitted') # {} =>
            (current = NoneMsg \/ OwnAck \/ lastOp'.op = "skip_current")]_vars

\* C2: while M1 is current, mark_complete(id) with another id is ignored: the current
\* message stays M1, nothing is polled from the queue and no tts_ready is emitted.
ClaimC2 ==
    [][StaleAck("play_complete") =>
            (current' = current /\ queue' = queue /\ ReadyIds(emitted') = {})]_vars

\* C3: the number of queued messages never exceeds QUEUE_MAX_SIZE.
ClaimC3 == Len(queue) <= QUEUE_MAX_SIZE

\* C3 witness: an accepted add_message on a full queue dropped an entry and left the
\* queue full.
WitnessC3 ==
    /\ lastOp.op = "add_message" /\ lastOp.ret = "True"
    /\ lastOp.dropped # NoId
    /\ Len(queue) = QUEUE_MAX_SIZE

\* The step polls a message: a message that was not current becomes current.
PollStep == current' # NoneMsg /\ current' # current

\* C4: get_next returns a queued message of maximal priority, and of two messages
\* queued together the one of higher priority is polled first: a polled message has
\* the highest priority of the queue it is taken from, and it was never queued
\* together with a message of higher priority that left the queue unpolled.
ClaimC4 ==
    [][PollStep =>
            /\ \A x \in Queued(queue) \cup Queued(queue') : x.priority <= current'.priority
            /\ current'.id \notin overtaken]_vars

\* The lowest priority among the messages of heap q (q non-empty).
LowestPriority(q) ==
    CHOOSE p \in {x.priority : x \in Queued(q)} :
        \A x \in Queued(q) : p <= x.priority

\* The message add_message would have to evict from q: of lowest priority, and the
\* oldest of those.
IsLowestOldest(q, x) ==
    /\ x \in Queued(q)
    /\ x.priority = LowestPriority(q)
    /\ \A y \in Queued(q) : y.priority = x.priority => x.created_at <= y.created_at

\* The step is an accepted add_message on a full queue of a message whose priority is
\* strictly higher than the lowest queued priority.
FullHigherOffer ==
    /\ lastOp'.op = "add_message" /\ lastOp'.ret = "True"
    /\ queue # <<>> /\ Len(queue) >= QUEUE_MAX_SIZE
    /\ \E m \in Queued(queue') :
            m.id = lastOp'.id /\ m.priority > LowestPriority(queue)

\* C5: on a full queue, a new message of strictly higher priority than the lowest
\* queued one evicts the entry of lowest priority (the oldest on a tie) and every
\* entry of higher priority stays queued.
ClaimC5 ==
    [][FullHigherOffer =>
            /\ \E x \in Queued(queue) : IsLowestOldest(queue, x) /\ x.id = lastOp'.dropped
            /\ \A y \in Queued(queue) :
                    y.priority > LowestPriority(queue) => y \in Queued(queue')]_vars

\* C6: after every operation has returned, the dispatcher has advanced: if no message
\* is current then the queue is empty.
ClaimC6 == current = NoneMsg => queue = <<>>

\* C6 witness: a play_complete for the current message has returned while nothing was
\* queued, and the dispatcher is idle.
WitnessC6 ==
    /\ lastOp.op = "play_complete" /\ lastOp.id # NoId
    /\ current = NoneMsg
    /\ queue = <<>>
    /\ nextId > 1

\* C8: mark_complete(id) with the current message's id clears it and advances: the
\* head of a non-empty queue becomes current and exactly one tts_ready is emitted,
\* for it; with an empty queue no message is current.
ClaimC8 ==
    [][(OwnAck /\ lastOp'.op = "play_complete") =>
            IF queue # <<>>
            THEN /\ current' = HeapPopItem(queue).message
                 /\ \A x \in Queued(queue) : x.priority <= current'.priority
                 /\ emitted' = <<Event("tts_ready", current'.id, 0)>>
            ELSE current' = NoneMsg /\ emitted' = <<>>]_vars

\* The step is an add_message of a message whose text the duplicate detector recorded
\* less than the duplicate window ago.
DuplicateOffer ==
    /\ lastOp'.op = "add_message"
    /\ seen[lastOp'.text] # NoTime
    /\ now - seen[lastOp'.text] < QUEUE_DUPLICATE_WINDOW

RateLimitedOffer == lastOp'.op = "add_message" /\ lastOp'.stage = "rate_limit"

\* C37: add_message consults the duplicate detector before the rate limiter: a message
\* the rate limiter rejects is not queued but its text is recorded by the detector,
\* and a message whose text was recorded less than the duplicate window ago (queued
\* or not) is rejected as a duplicate without consuming a rate-limit slot.
ClaimC37 ==
    [][/\ RateLimitedOffer =>
            /\ seen'[lastOp'.text] = now
            /\ queue' = queue /\ messages' = messages /\ current' = current
       /\ DuplicateOffer =>
            /\ lastOp'.ret = "False" /\ lastOp'.stage = "duplicate"
            /\ tokens' = tokens]_vars

\* C37 witness: the first message, a YouTube alert, was accepted and is current; the
\* second, another YouTube alert, was offered at the same time and rejected by the
\* rate limiter; the third, with the text of the second, is rejected as a duplicate.
WitnessC37 ==
    /\ nextId = 3 /\ now = 0
    /\ current.id = 1 /\ current.platform = "youtube"
    /\ Len(tokens["youtube"]) = RATE_LIMIT_YOUTUBE
    /\ lastOp.op = "add_message" /\ lastOp.id = 3 /\ lastOp.stage = "duplicate"
    /\ EventPlatform(lastOp.text) = "youtube" /\ lastOp.text # current.text
    /\ queue = <<>>

\* C17: when the polled message has no audio artifact the dispatcher drops it and
\* moves on: it never makes a message current without emitting tts_ready for it.
ClaimC17 ==
    [][(PollStep /\ lastOp'.op # "get_next") => current'.id \in ReadyIds(emitted')]_vars

\* The step is an add_message on a full queue.
FullOffer ==
    /\ lastOp'.op = "add_message"
    /\ queue # <<>> /\ Len(queue) >= QUEUE_MAX_SIZE

\* C19: on a full queue a new message whose priority is not strictly higher than the
\* lowest queued priority is rejected (False, queue unchanged): an add_message on a
\* full queue either returns False and leaves the queue alone, or the message it
\* added has a priority strictly higher than the lowest one that was queued.
ClaimC19 ==
    [][FullOffer =>
            \/ lastOp'.ret = "False" /\ queue' = queue
            \/ \E m \in Queued(queue') \cup {current'} :
                    m.id = lastOp'.id /\ m.priority > LowestPriority(queue)]_vars

\* C20: a client error{id} with the current message's id is treated as completion: it
\* has the effect of play_complete{id} on the current message, the queue and the
\* emitted events: the current message is cleared and the next one is polled and sent.
ClaimC20 ==
    [][(OwnAck /\ lastOp'.op = "error") =>
            /\ current' = GetNextCurrent(queue, NoneMsg)
            /\ queue' = GetNextQueue(queue)
            /\ messages' = GetNextMessages(queue, messages)
            /\ emitted' = SendNextEvents(GetNextMessage(queue))]_vars

\* C20 witness: an error ack matched the current message, and the next queued
\* message is now current and was sent.
WitnessC20 ==
    /\ lastOp.op = "error" /\ lastOp.stage = "match"
    /\ current # NoneMsg /\ current.id # lastOp.id
    /\ ReadyIds(emitted) = {current.id}

\* The number of events named ev in the sequence evs.
CountEvents(evs, ev) == Cardinality({i \in DOMAIN evs : evs[i].ev = ev})

\* C21: skip_current while a message is current emits one skip event, discards the
\* current message (it is not queued again) and advances: the head of a non-empty
\* queue becomes current and tts_ready is emitted for it, every other queued message
\* stays queued; with an empty queue no message is current.
ClaimC21 ==
    [][(lastOp'.op = "skip_current" /\ current # NoneMsg) =>
            /\ CountEvents(emitted', "skip") = 1
            /\ current \notin Queued(queue') /\ current' # current
            /\ IF queue # <<>>
               THEN /\ current' = HeapPopItem(queue).message
                    /\ ReadyIds(emitted') = {current'.id}
                    /\ Queued(queue') = Queued(queue) \ {current'}
               ELSE current' = NoneMsg /\ queue' = <<>> /\ ReadyIds(emitted') = {}]_vars

\* C22: clear_queue removes every queued message and leaves the dispatcher as it was:
\* the current message is kept and neither tts_ready nor skip is emitted; a
\* play_complete for the current message that comes next leaves no current message and
\* an empty queue.
ClaimC22 ==
    [][/\ lastOp'.op = "clear_queue" =>
            /\ queue' = <<>> /\ messages' = {}
            /\ current' = current
            /\ ReadyIds(emitted') = {} /\ CountEvents(emitted', "skip") = 0
       /\ (lastOp.op = "clear_queue" /\ OwnAck /\ lastOp'.op = "play_complete") =>
            current' = NoneMsg /\ queue' = <<>>]_vars

\* C22 witness: clear_queue has run while a message was current; the message is still
\* current, nothing is queued, and messages created after it are gone.
WitnessC22 ==
    /\ lastOp.op = "clear_queue"
    /\ current # NoneMsg /\ current.audio_path
    /\ queue = <<>> /\ messages = {}
    /\ nextId > current.id + 1

\* ------------------------------------------------------------------------
\* Claims about the pipeline (ProcSpec)
\* ------------------------------------------------------------------------
\* The queue service holds the message id: it is queued in q or it is the current one.
Held(id, q, cur) == id # NoId /\ (cur.id = id \/ \E x \in Queued(q) : x.id = id)

\* The step is a call of process_event that returns.
ProcReturn == lastOp'.op \in {"process_event", "add_message"}

\* C15: process_event returns True if and only if the event produced a message that
\* the queue service holds when the call returns (queued or current); it returns False
\* exactly when no message for the event was added.
ClaimC15 ==
    [][ProcReturn =>
            (lastOp'.ret = "True" <=> Held(lastOp'.id, queue', current'))]_vars

\* C15 witness: process_event returned True on a full queue, an entry was dropped and
\* the new message is held.
WitnessC15 ==
    /\ lastOp.op = "add_message" /\ lastOp.ret = "True"
    /\ lastOp.dropped # NoId
    /\ Held(lastOp.id, queue, current)

\* The step is a process_event whose template rendering failed, whose cleaned text
\* was empty or whose synthesis raised.
FailedEvent ==
    /\ lastOp'.op = "process_event"
    /\ lastOp'.stage \in {"format", "empty", "synthesize"}

\* C16: per-event errors never leave process_event: when rendering fails, the cleaned
\* text is empty or synthesis raises, it raises nothing, returns False, enqueues
\* nothing, and leaves the queue service as it was for the next event.
ClaimC16 ==
    [][FailedEvent =>
            /\ lastOp'.ret = "False"
            /\ queue' = queue /\ messages' = messages /\ current' = current
            /\ seen' = seen /\ tokens' = tokens /\ nextId' = nextId
            /\ emitted' = <<>>]_vars

\* C16 witness: a synthesis failure was rejected while a message is current and
\* another one is queued.
WitnessC16 ==
    /\ lastOp.op = "process_event" /\ lastOp.stage = "synthesize"
    /\ lastOp.ret = "False"
    /\ current # NoneMsg /\ queue # <<>>

\* C38: process_event synthesizes before the queue decides: every event that passes
\* the enable check, the threshold check and the formatting causes exactly one
\* synthesize call, also when add_message then rejects the message as a duplicate or
\* as rate limited.
ClaimC38 ==
    [][(/\ lastOp'.op \in {"process_event", "add_message"}
        /\ IsEventEnabled(pevent') /\ MeetsThreshold(pevent')
        /\ lastOp'.stage # "format") => synthCalls' = 1]_vars

\* C38 witness: process_event synthesized and add_message then rejected the message as
\* rate limited.
WitnessC38 ==
    /\ lastOp.op = "add_message" /\ lastOp.ret = "False" /\ lastOp.stage = "rate_limit"
    /\ pevent # NoEvent /\ synthCalls = 1

\* The step is a process_event call, rejected or ended by add_message.
PipelineStep == lastOp'.op \in {"process_event", "add_message"}

\* The event's kind is switched off in the configuration.
Disabled(event) ==
    \/ event.kind = "twitch_bits" /\ ~TWITCH_BITS_ENABLED
    \/ event.kind = "twitch_channel_points" /\ ~TWITCH_CHANNEL_POINTS_ENABLED
    \/ event.kind = "youtube_superchat" /\ ~YOUTUBE_SUPERCHAT_ENABLED

\* The event is a cheer of fewer bits than the minimum.
BelowMinBits(event) == event.kind = "twitch_bits" /\ event.amount < TWITCH_BITS_MINIMUM

\* C27: process_event stops at the enable and threshold checks: for an event of a
\* disabled kind, or a cheer of fewer bits than the minimum, it returns False without
\* calling synthesize and leaves the queue, the current message, the duplicate
\* detector and the rate limiter as they were; a cheer of exactly the minimum is not
\* stopped by these checks.
ClaimC27 ==
    [][PipelineStep =>
            /\ (Disabled(pevent') \/ BelowMinBits(pevent')) =>
                    /\ lastOp'.op = "process_event" /\ lastOp'.ret = "False"
                    /\ synthCalls' = 0
                    /\ queue' = queue /\ messages' = messages /\ current' = current
                    /\ seen' = seen /\ tokens' = tokens
                    /\ emitted' = <<>>
            /\ (pevent'.kind = "twitch_bits" /\ pevent'.amount = TWITCH_BITS_MINIMUM
                    /\ ~Disabled(pevent'))
                    => lastOp'.stage \notin {"enabled", "threshold"}]_vars

\* C27 witness: a cheer below the minimum was rejected at the threshold check while a
\* message is current and another one is queued.
WitnessC27 ==
    /\ lastOp.op = "process_event" /\ lastOp.stage = "threshold"
    /\ BelowMinBits(pevent)
    /\ synthCalls = 0
    /\ current # NoneMsg /\ queue # <<>>

\* ------------------------------------------------------------------------
\* Claims about _meets_threshold (ThresholdSpec) and _clean_text (CleanSpec)
\* ------------------------------------------------------------------------
\* round(amount * 100) for amount = micros / 10^6: the nearest whole number of cents,
\* the even one when two are equally near.
RoundCents(micros) ==
    LET whole == (micros * 100) \div MICROS_PER_UNIT
        rest == (micros * 100) % MICROS_PER_UNIT
    IN IF 2 * rest > MICROS_PER_UNIT \/ (2 * rest = MICROS_PER_UNIT /\ whole % 2 = 1)
       THEN whole + 1
       ELSE whole

\* C28: a youtube_superchat or youtube_supersticker event passes the threshold check
\* if and only if round(amount * 100) >= min_cents, for every amount in micros.
ClaimC28 ==
    mret.called =>
        (mret.ret <=> RoundCents(mret.event.amount) >= YOUTUBE_SUPERCHAT_MINIMUM_CENTS)

\* C29: _clean_text is idempotent: applied to its own result it returns that result.
ClaimC29 == cret.calls = 2 => cret.out = cret.given

\* The string holds an emote token :[A-Za-z0-9_]+: .
HasEmote(str) ==
    \E i, j \in DOMAIN str :
        /\ j >= i + 2
        /\ str[i] = Colon /\ str[j] = Colon
        /\ \A k \in (i + 1)..(j - 1) : str[k] \in WordChars

\* The string holds a URL https?://\S+ .
HasUrl(str) ==
    \E i \in DOMAIN str :
        \E scheme \in {<<"h", "t", "t", "p", Colon, Slash, Slash>>,
                       <<"h", "t", "t", "p", "s", Colon, Slash, Slash>>} :
            /\ StartsWith(Drop(str, i - 1), scheme)
            /\ i + Len(scheme) \in DOMAIN str
            /\ str[i + Len(scheme)] # Space

\* C30: the result of _clean_text holds no emote token and no URL.
ClaimC30 == cret.calls >= 1 => ~HasEmote(cret.out) /\ ~HasUrl(cret.out)

\* ------------------------------------------------------------------------
\* Claims about the concurrent threads (ConcSpec, FairSpec) and synthesize (TtsSpec)
\* ------------------------------------------------------------------------
\* C7: the overlay never stalls on a message: whenever a message is current, the
\* dispatcher eventually leaves it (on an ack for it or, without any ack, on a
\* timeout).
ClaimC7 == \A id \in 1..MaxConcMsgs : (current.id = id) ~> (current.id # id)

\* C9: in add_message the test `no message is current` and the poll that follows it
\* act as one step: when a thread running add_message polls a message, no message is
\* current (no other operation polled one since the test).
ClaimC9 ==
    [][\A t \in Adapters :
            (pc[t] = "get_next" /\ pc'[t] = "emit" /\ polled'[t] # NoneMsg)
                => current = NoneMsg]_vars

\* C10: concurrent synthesize calls with the same cache key coalesce: of two calls
\* running at the same time with the same key at most one has called the backend.
ClaimC10 ==
    \A c1, c2 \in Callers :
        (c1 # c2 /\ tpc[c1] # "idle" /\ tpc[c2] # "idle" /\ tkey[c1] = tkey[c2])
            => ~(tcalled[c1] /\ tcalled[c2])

\* ------------------------------------------------------------------------
\* Claims about synthesize calls made one after the other (SeqTtsSpec)
\* ------------------------------------------------------------------------
\* The step is caller c's test of the cache.
CacheTest(c) == tpc[c] = "exists" /\ tpc'[c] # "exists"

\* The step returns to caller c the artifact d, unchanged, without a backend call.
ReturnsSame(c, d) ==
    /\ tpc'[c] = "idle"
    /\ tret'[c] = Returned("ok", d.key)
    /\ ~tcalled'[c]
    /\ FileSize(cacheFiles', d.key) = d.size

CleanupStep(c) == tpc[c] = "cleanup" /\ tpc'[c] = "idle"

\* C24: when a synthesize call that wrote a new artifact returns, cache maintenance
\* has run: no file older than the TTL remains, the total size is at most the maximum,
\* and the unexpired files deleted are the oldest ones (no kept file is older than a
\* deleted one), deleted only until the total was within the maximum.
ClaimC24 ==
    [][\A c \in Callers : CleanupStep(c) =>
            /\ cacheFiles' \subseteq cacheFiles
            /\ \A f \in cacheFiles' : now - f.mtime <= AUDIO_CACHE_TTL
            /\ TotalSize(cacheFiles') <= AUDIO_CACHE_MAX_SIZE
            /\ LET removed ==
                       {f \in cacheFiles \ cacheFiles' : now - f.mtime <= AUDIO_CACHE_TTL}
               IN /\ \A r \in removed : \A k \in cacheFiles' : r.mtime <= k.mtime
                  /\ removed # {} =>
                        \E r \in removed :
                            /\ \A q \in removed : q.mtime <= r.mtime
                            /\ TotalSize(cacheFiles' \cup {r}) > AUDIO_CACHE_MAX_SIZE]_vars

\* C24 witness: a call that wrote a new artifact has returned before any file could
\* expire, an artifact returned earlier was deleted to make room, only files written
\* at the latest time are left and the cache is filled to its maximum.
WitnessC24 ==
    /\ now = AUDIO_CACHE_TTL
    /\ \A f \in cacheFiles : f.mtime = now
    /\ \E c \in Callers : tpc[c] = "idle" /\ tret[c].status = "ok" /\ tcalled[c]
    /\ \E d \in tdone : ~d.kept
    /\ TotalSize(cacheFiles) = AUDIO_CACHE_MAX_SIZE

\* C39: when synthesize returns successfully after writing an artifact, the returned
\* path refers to a file that is in the cache: the cache maintenance the write
\* triggered has not deleted the artifact just written.
ClaimC39 ==
    [][\A c \in Callers : (CleanupStep(c) /\ tret'[c].status = "ok") =>
            Exists(cacheFiles', tret'[c].key)]_vars

\* ------------------------------------------------------------------------
\* Claims about the cache files under concurrent synthesize calls (TtsSpec)
\* ------------------------------------------------------------------------
\* The file <key>.wav is in the directory files with all its bytes written.
Complete(files, key) == \A f \in files : f.key = key => f.complete

\* C23: an artifact is visible at its final cache path only once it is completely
\* written: a synthesize call whose cache test finds the file and returns its path
\* returns a completely written artifact.
ClaimC23 ==
    [][\A c \in Callers :
            (CacheTest(c) /\ tret'[c].status = "ok") => Complete(cacheFiles, tkey[c])]_vars

\* ------------------------------------------------------------------------
\* Claims about the audio retrieval route (AudioSpec)
\* ------------------------------------------------------------------------
\* The string holds a path separator.
HasSeparator(str) == \E i \in DOMAIN str : str[i] \in {Slash, Backslash}

\* The string holds "..".
HasDotDot(str) == \E i \in DOMAIN str : i + 1 \in DOMAIN str /\ str[i] = Dot /\ str[i + 1] = Dot

\* The string starts with "../".
IsTraversal(str) == Len(str) >= 3 /\ SubSeq(str, 1, 3) = <<Dot, Dot, Slash>>

\* C25: for every audio_id requested, the handle looked up after sanitization holds
\* no "/", no "\" and no "..", a file is sent only if it is the file <handle>.wav of
\* the cache directory, and a request starting with "../" gets 404 and no file.
ClaimC25 ==
    [][aret' # aret =>
            /\ ~HasSeparator(aret'.handle) /\ ~HasDotDot(aret'.handle)
            /\ aret'.sent => \E f \in cacheFiles : HexDigest(f.key) = aret'.handle
            /\ IsTraversal(aret'.audio_id) => aret'.status = 404 /\ ~aret'.sent]_vars

\* C25 witness: with a complete file in the cache, a request starting with "../" got
\* 404 and no file.
WitnessC25 ==
    /\ \E f \in cacheFiles : f.complete
    /\ IsTraversal(aret.audio_id)
    /\ aret.status = 404 /\ ~aret.sent

\* C26: a request whose audio_id holds a path separator or ".." is refused: it gets
\* 404 and no file is sent.
ClaimC26 ==
    [][(aret' # aret /\ (HasSeparator(aret'.audio_id) \/ HasDotDot(aret'.audio_id)))
            => aret'.status = 404 /\ ~aret'.sent]_vars

\* ------------------------------------------------------------------------
\* Claims about the rate limiter and the duplicate detector (LimiterSpec)
\* ------------------------------------------------------------------------
\* The number of times in the sequence l that lie in the closed interval [a, b].
CountIn(l, a, b) == Cardinality({i \in DOMAIN l : a <= l[i] /\ l[i] <= b})

\* C12: for each key, in any closed interval [t, t + window] at most `rate` calls of
\* is_allowed(key) return True.
ClaimC12 ==
    \A key \in Platforms : \A t \in 0..MaxLimiterTime :
        CountIn(admitted[key], t, t + LIMITER_WINDOW) <= LIMITER_RATE

\* C13: is_duplicate(text) returns False if and only if no earlier call with the same
\* text returned False less than `window` before: one False per window from the first
\* sighting, hits do not extend the window, and the text is accepted again after it.
ClaimC13 ==
    [][lret'.op = "is_duplicate" =>
            (lret'.ret = "False" <=>
                (\/ accepted[lret'.text] = NoTime
                 \/ lnow - accepted[lret'.text] >= DETECTOR_WINDOW))]_vars

\* C13 witness: a call returned True for a text first seen earlier, inside the window.
WitnessC13 ==
    /\ lret.op = "is_duplicate" /\ lret.ret = "True"
    /\ accepted[lret.text] # NoTime
    /\ accepted[lret.text] < lnow
    /\ lnow - accepted[lret.text] < DETECTOR_WINDOW

\* The number of earlier is_allowed(key) calls that returned True and still count at
\* time t (they are younger than the window).
OwnCount(key, t) ==
    Cardinality({i \in DOMAIN admitted[key] : admitted[key][i] > t - LIMITER_WINDOW})

\* C34: rate-limiter keys are independent: an is_allowed or get_remaining call on one
\* key leaves the tokens of every other key as they are, and its result is fixed by
\* the earlier admissions of its own key alone, so an exhausted key never makes a
\* call on another key fail.
ClaimC34 ==
    [][lret'.op \in {"is_allowed", "get_remaining"} =>
            /\ \A other \in Platforms \ {lret'.key} : ltokens'[other] = ltokens[other]
            /\ lret'.op = "is_allowed" =>
                    (lret'.ret = "True" <=> OwnCount(lret'.key, lnow) < LIMITER_RATE)
            /\ lret'.op = "get_remaining" =>
                    lret'.n = Max0(LIMITER_RATE - OwnCount(lret'.key, lnow))]_vars

\* C34 witness: is_allowed returned True for one key while the budget of the other key
\* is used up.
WitnessC34 ==
    /\ lret.op = "is_allowed" /\ lret.ret = "True"
    /\ \E other \in Platforms \ {lret.key} :
            Len(RemoveOld(ltokens[other], lnow, LIMITER_WINDOW)) >= LIMITER_RATE

\* ------------------------------------------------------------------------
\* Claims about the heap (HeapSpec)
\* ------------------------------------------------------------------------
\* C18: among queued messages of equal priority, get_next returns the oldest first
\* (ascending creation timestamp), whatever the order in which they were offered.
ClaimC18 ==
    [][Len(hq') < Len(hq) =>
            \A y \in Queued(hq) :
                y.priority = hout'.priority => hout'.created_at <= y.created_at]_vars

\* ------------------------------------------------------------------------
\* Claims about the events with variant kinds (EventSpec)
\* ------------------------------------------------------------------------
\* The event object exists: its constructor has returned.
IsConstructed == sevent.stage \notin {"none", "args"}

\* The kind tag agrees with the variant fields of the event.
KindAgrees(event) ==
    /\ event.cls = "TwitchGiftSubEvent" =>
            /\ event.kind = "twitch_gift_single" <=> event.count = 1
            /\ event.kind = "twitch_gift_multi" <=> event.count >= 2
    /\ event.cls = "TwitchSubEvent" /\ event.is_resub => event.kind = "twitch_sub_resub"
    /\ event.cls = "YouTubeMembershipEvent" /\ event.is_milestone =>
            event.kind = "youtube_membership_milestone"

\* C31: from its construction until it is dispatched the kind of an event agrees with
\* its variant fields (a gift is twitch_gift_single iff count = 1 and twitch_gift_multi
\* iff count >= 2, a resub is twitch_sub_resub, a milestone is
\* youtube_membership_milestone), and no step after the construction changes the
\* kind or these fields.
ClaimC31 ==
    /\ [](IsConstructed => KindAgrees(sevent.event))
    /\ [][IsConstructed => sevent'.event = sevent.event]_vars

\* ------------------------------------------------------------------------
\* Claims about the backend protocol (WyomingSpec)
\* ------------------------------------------------------------------------
\* The response the call has read is complete: every payload has the announced
\* length and an audio-stop ended the stream.
CompleteResponse ==
    /\ wy.stopped
    /\ \A i \in DOMAIN wy.sent : Len(wy.sent[i].payload) = wy.sent[i].payload_length

\* The payloads the backend delivered, in arrival order.
Delivered == Join([i \in DOMAIN wy.sent |-> wy.sent[i].payload])

\* C32: WyomingProtocol.synthesize returns audio only for a complete response: every
\* audio-chunk payload was read in its announced length and appended in arrival order,
\* and an audio-stop ended the stream; a connection closed before audio-stop or a
\* payload shorter than announced makes the call raise.
ClaimC32 ==
    wy.ret.kind = "audio" => CompleteResponse /\ wy.ret.wav.frames = Delivered

\* C33: a backend synthesize call ends (audio returned or error raised) within the
\* timeout measured from its start, whatever the backend sends: no call is running
\* or ends later than that.
ClaimC33 == wy.pc # "idle" => wy.elapsed <= SOCKET_TIMEOUT

\* ------------------------------------------------------------------------
\* Claims about the dispatcher and a browser source that answers (ClientSpec)
\* ------------------------------------------------------------------------
\* add_message has just returned True for the message id, which has an audio path.
JustAccepted(id) ==
    /\ lastOp.op = "add_message" /\ lastOp.id = id /\ lastOp.ret = "True"
    /\ \E m \in messages \cup {current} : m.id = id /\ m.audio_path

\* C35: with a client that answers every tts_ready by play_complete or error with that
\* id, and without clear_queue and skip_current, every message with an audio path
\* that add_message accepted is eventually emitted as tts_ready, unless an overflow
\* evicts it.
ClaimC35 ==
    \A id \in 1..MaxMsgs :
        JustAccepted(id) ~> (id \in Range(hist.sent) \/ id \in hist.gone)

\* ------------------------------------------------------------------------
\* Claims about the history of the dispatcher under concurrent threads (DispatchSpec)
\* ------------------------------------------------------------------------
\* C36: no message is dispatched twice: every message id appears in at most one
\* tts_ready emission, and no tts_ready is emitted for a message that was evicted on
\* overflow, cleared or skipped before.
ClaimC36 ==
    /\ [](\A i, j \in DOMAIN hist.sent : hist.sent[i] = hist.sent[j] => i = j)
    /\ [][Range(ReadySeq(emitted')) \cap hist.gone = {}]_vars

\* ------------------------------------------------------------------------
\* Claims about the id index of the queue service (Spec)
\* ------------------------------------------------------------------------
\* The ids of the messages in ms.
Ids(ms) == {m.id : m \in ms}

\* The ids get_message is asked for: those of the messages of a run, and NoId, which
\* no message has.
MessageIds == {NoId} \cup (1 .. MaxMsgs)

\* C40: after every add_message, get_next, mark_complete, skip_current and
\* clear_queue the ids in _messages are the ids of the queued entries, so
\* get_message(id) returns a message (the one with that id) exactly when that message
\* is queued or current.
ClaimC40 ==
    /\ Ids(messages) = Ids(Queued(queue))
    /\ \A id \in MessageIds :
        LET held == {m \in Queued(queue) \cup ({current} \ {NoneMsg}) : m.id = id}
        IN IF held = {} THEN GetMessage(current, messages, id) = NoneMsg
           ELSE GetMessage(current, messages, id) \in held

\* C40 witness: add_message has dropped a queued message to make room, a message is
\* current and others are queued: get_message finds the current and the queued ones
\* and not the dropped one.
WitnessC40 ==
    /\ lastOp.op = "add_message" /\ lastOp.dropped # NoId
    /\ current # NoneMsg /\ queue # <<>>
    /\ GetMessage(current, messages, current.id) = current
    /\ GetMessage(current, messages, lastOp.id).id = lastOp.id
    /\ GetMessage(current, messages, lastOp.dropped) = NoneMsg
====
